---- MODULE Spec2Model ----
(***************************************************************************)
(* Model of the image build orchestrator (src/src/build.py) and of the     *)
(* components it drives: the artifact codec (artifact/tar.py), the raw     *)
(* block device provisioner (blkdev/raw.py, blkdev/utils.py), the ext4     *)
(* formatter (fs/ext4.py) and the size parser (utils.py).                  *)
(*                                                                         *)
(* External tools are modelled by their exit status, drawn with \E at the  *)
(* call, and by their effect on the host (image files, loop devices,       *)
(* mounts, the artifact file).                                             *)
(*                                                                         *)
(* Eight specifications share the variables:                               *)
(*   Spec         the build pipeline of main, build.py lines 273-301, and  *)
(*                the exit-code dispatch of lines 348-357;                 *)
(*   SpecMain     main as written from line 259, with the environment      *)
(*                checks and the development call to build_kernel;         *)
(*   SpecExtract  artifact.tar.extract applied to arbitrary arguments;     *)
(*   SpecCleanup  safe_cleanup_blkdev applied to the status each           *)
(*                provisioning stage leaves;                               *)
(*   SpecCodec    artifact.tar.create and blkdev.raw.create applied to     *)
(*                arbitrary targets, and extract of the archive created;   *)
(*   SpecSize     utils.convert_to_bytes applied to arbitrary strings;     *)
(*   SpecAttach   blkdev.raw.attach called repeatedly on a host with two   *)
(*                image paths;                                             *)
(*   SpecDispatch the entry shell applied to every outcome of main.        *)
(***************************************************************************)
EXTENDS Integers, Sequences, FiniteSets, TLC

\* ------------------------------------------------------------------ bounds
MaxDevs == 2
MaxHashLen == 3
MaxSizeLen == 4
BufLen == 2
MaxAttach == 3

\* ------------------------------------------------------------- exceptions
NoExc == [cls |-> "None", msg |-> "none"]

Exc(c, m) == [cls |-> c, msg |-> m]

\* Python's exception hierarchy, as far as the except clauses need it.
\* BuildError and CLIError derive from RuntimeError (build.py 316-317), and
\* so does the builtin NotImplementedError.
IsRuntimeError(e) ==
  e.cls \in {"RuntimeError", "BuildError", "CLIError", "NotImplementedError"}

IsBuildError(e) == e.cls = "BuildError"

IsCLIError(e) == e.cls = "CLIError"

IsInterrupt(e) == e.cls \in {"KeyboardInterrupt", "SystemExit"}

\* ---------------------------------------------------------------- strings
\* A string is a sequence of tokens; ":" is the only token holding a colon.
HashTokens == {"md5", "MD5", "crc", ":", "aa", "bb"}

RECURSIVE SeqsUpTo(_, _)
SeqsUpTo(S, n) ==
  IF n = 0 THEN {<<>>}
  ELSE LET shorter == SeqsUpTo(S, n - 1)
       IN shorter \cup {Append(s, t) : s \in {x \in shorter : Len(x) = n - 1}, t \in S}

\* str.lower()
LowerTok(t) == IF t = "MD5" THEN "md5" ELSE t

Lower(s) == [i \in 1..Len(s) |-> LowerTok(s[i])]

\* index of the first ":" of s, 0 when there is none
FirstColon(s) ==
  IF \E i \in 1..Len(s) : s[i] = ":"
  THEN CHOOSE i \in 1..Len(s) : s[i] = ":" /\ \A j \in 1..(i - 1) : s[j] # ":"
  ELSE 0

\* hash.split(':', 1): one or two parts
SplitHash(s) ==
  LET c == FirstColon(s)
  IN IF c = 0 THEN <<s>>
     ELSE <<SubSeq(s, 1, c - 1), SubSeq(s, c + 1, Len(s))>>

\* ------------------------------------------------------- artifact contents
Contents == {"orig", "corrupt"}

\* the checksum tools installed on the host: f"{_algo.lower()}sum"
\* (an empty algorithm names the tool "sum")
SumTools == {<<"md5">>, <<>>}

\* first field of the output of <algo>sum on a file of the given content
Digest(algo, content) ==
  IF algo = <<"md5">>
  THEN (IF content = "orig" THEN <<"aa">> ELSE <<"bb">>)
  ELSE (IF content = "orig" THEN <<"bb">> ELSE <<"aa">>)

\* ------------------------------------------------------ compression flags
SupportedAlgos == {"gz", "xz", "bz2", "lzma", "lzip", "lzop", "zstd"}

\* mutant of AlgoFlagKnown: the chain lacks its last branch, 'zstd'
AlgoFlagKnownNoZstd(compress_algo) ==
  compress_algo = "None" \/ compress_algo \in (SupportedAlgos \ {"zstd"})

\* the if/elif chain of create and extract: TRUE when a flag is selected
AlgoFlagKnown(compress_algo) ==
  compress_algo = "None" \/ compress_algo \in SupportedAlgos

\* f"tar.{compress_algo}" of create's return value; None formats as "None"
FmtOfAlgo(compress_algo) == <<"tar", compress_algo>>

\* mutant of HashEqual: only the lengths of the digests are compared
HashEqualByLength(calc_hash, expected) == Len(calc_hash) = Len(expected)

\* calc_hash != _hash of extract, negated
HashEqual(calc_hash, expected) == calc_hash = expected

\* mutant of TarCreate: the exit status of tar is not examined
TarCreateTarUnchecked(dst_exists, compress_algo, tar_rc, sum_rc) ==
  LET none == [path |-> "absent", fmt |-> <<>>, size_bytes |-> 0, hash |-> <<>>]
  IN
  IF dst_exists
  THEN [exc |-> Exc("RuntimeError", "Artifact already exists"),
        tools |-> <<>>, written |-> FALSE, status |-> none]
  ELSE IF ~AlgoFlagKnown(compress_algo)
  THEN [exc |-> Exc("ValueError", "Unsupported Compression Algorithm"),
        tools |-> <<>>, written |-> FALSE, status |-> none]
  ELSE IF sum_rc # 0
  THEN [exc |-> Exc("RuntimeError", "Failed to calculate the hash of the artifact"),
        tools |-> <<"tar -c", "md5sum">>, written |-> tar_rc = 0, status |-> none]
  ELSE [exc |-> NoExc,
        tools |-> <<"tar -c", "md5sum">>, written |-> tar_rc = 0,
        status |-> [path |-> "artifact_path",
                    fmt |-> FmtOfAlgo(compress_algo),
                    size_bytes |-> 1,
                    hash |-> <<"md5", ":">> \o Digest(<<"md5">>, "orig")]]

\* mutant of TarCreate: an existing destination is not looked for
TarCreateOverwrites(dst_exists, compress_algo, tar_rc, sum_rc) ==
  LET none == [path |-> "absent", fmt |-> <<>>, size_bytes |-> 0, hash |-> <<>>]
  IN
  IF ~AlgoFlagKnown(compress_algo)
  THEN [exc |-> Exc("ValueError", "Unsupported Compression Algorithm"),
        tools |-> <<>>, written |-> FALSE, status |-> none]
  ELSE IF tar_rc # 0
  THEN [exc |-> Exc("RuntimeError", "Failed to create a compressed archive"),
        tools |-> <<"tar -c">>, written |-> FALSE, status |-> none]
  ELSE IF sum_rc # 0
  THEN [exc |-> Exc("RuntimeError", "Failed to calculate the hash of the artifact"),
        tools |-> <<"tar -c", "md5sum">>, written |-> TRUE, status |-> none]
  ELSE [exc |-> NoExc,
        tools |-> <<"tar -c", "md5sum">>, written |-> TRUE,
        status |-> [path |-> "artifact_path",
                    fmt |-> FmtOfAlgo(compress_algo),
                    size_bytes |-> 1,
                    hash |-> <<"md5", ":">> \o Digest(<<"md5">>, "orig")]]

\* artifact.tar.create(src, dst, compress_algo) with the outcome of its tools.
\* Returns the exception (NoExc on return), the tools invoked in order,
\* whether dst was written and the returned ArtifactStatus.
TarCreate(dst_exists, compress_algo, tar_rc, sum_rc) ==
  LET none == [path |-> "absent", fmt |-> <<>>, size_bytes |-> 0, hash |-> <<>>]
  IN
  IF dst_exists
  THEN [exc |-> Exc("RuntimeError", "Artifact already exists"),
        tools |-> <<>>, written |-> FALSE, status |-> none]
  ELSE IF ~AlgoFlagKnown(compress_algo)
  THEN [exc |-> Exc("ValueError", "Unsupported Compression Algorithm"),
        tools |-> <<>>, written |-> FALSE, status |-> none]
  ELSE IF tar_rc # 0
  THEN [exc |-> Exc("RuntimeError", "Failed to create a compressed archive"),
        tools |-> <<"tar -c">>, written |-> FALSE, status |-> none]
  ELSE IF sum_rc # 0
  THEN [exc |-> Exc("RuntimeError", "Failed to calculate the hash of the artifact"),
        tools |-> <<"tar -c", "md5sum">>, written |-> TRUE, status |-> none]
  ELSE [exc |-> NoExc,
        tools |-> <<"tar -c", "md5sum">>, written |-> TRUE,
        status |-> [path |-> "artifact_path",
                    fmt |-> FmtOfAlgo(compress_algo),
                    size_bytes |-> 1,
                    hash |-> <<"md5", ":">> \o Digest(<<"md5">>, "orig")]]

\* artifact.tar.extract(src, dst, hash, compress_algo) with the outcome of
\* its tools.  dst_kind is "dir", "file" or "absent".  tools lists the tools
\* invoked in order: "sum" is the checksum tool <algo>sum, "tar -x" the
\* extraction; extracted tells that the extraction returned 0.
TarExtract(src_exists, dst_kind, hash, compress_algo, content, sum_rc, tar_rc) ==
  LET parts == SplitHash(hash)
      algo == Lower(parts[1])
      sumtool == "sum"
  IN
  IF ~src_exists
  THEN [exc |-> Exc("RuntimeError", "Artifact does not exist"),
        tools |-> <<>>, extracted |-> FALSE]
  ELSE IF dst_kind = "file"
  THEN [exc |-> Exc("RuntimeError", "You cannot extract a tar archive into a file!"),
        tools |-> <<>>, extracted |-> FALSE]
  ELSE IF dst_kind # "dir"
  THEN [exc |-> Exc("RuntimeError", "Destination Folder does not exist or is not a directory"),
        tools |-> <<>>, extracted |-> FALSE]
  ELSE IF Len(parts) # 2
  THEN [exc |-> Exc("ValueError", "Invalid Hash Format"),
        tools |-> <<>>, extracted |-> FALSE]
  ELSE IF algo \notin SumTools
  THEN [exc |-> Exc("FileNotFoundError", "no such checksum tool"),
        tools |-> <<>>, extracted |-> FALSE]
  ELSE IF sum_rc # 0
  THEN [exc |-> Exc("RuntimeError", "Failed to calculate the hash of the artifact"),
        tools |-> <<sumtool>>, extracted |-> FALSE]
  ELSE IF ~HashEqual(Digest(algo, content), parts[2])
  THEN [exc |-> Exc("ValueError", "Hash Mismatch"),
        tools |-> <<sumtool>>, extracted |-> FALSE]
  ELSE IF ~AlgoFlagKnown(compress_algo)
  THEN [exc |-> Exc("ValueError", "Unsupported Compression Algorithm"),
        tools |-> <<sumtool>>, extracted |-> FALSE]
  ELSE IF tar_rc # 0
  THEN [exc |-> Exc("RuntimeError", "Failed to extract the compressed archive"),
        tools |-> <<sumtool, "tar -x">>, extracted |-> FALSE]
  ELSE [exc |-> NoExc,
        tools |-> <<sumtool, "tar -x">>, extracted |-> TRUE]


\* ------------------------------------------------------------ size parser
IE_MULTIPLIERS ==
  [u \in {"KiB", "MiB", "GiB"} |->
     IF u = "KiB" THEN 1024 ELSE IF u = "MiB" THEN 1024 * 1024 ELSE 1024 * 1024 * 1024]

SI_MULTIPLIERS ==
  [u \in {"KB", "MB", "GB"} |->
     IF u = "KB" THEN 1000 ELSE IF u = "MB" THEN 1000 * 1000 ELSE 1000 * 1000 * 1000]

\* convert_to_bytes on a matched string with whole number n and unit u;
\* -1 stands for the ValueError of an unknown unit
convert_to_bytes(size) ==
  LET number == size[1]
      unit == size[2]
  IN IF unit \in DOMAIN IE_MULTIPLIERS THEN number * IE_MULTIPLIERS[unit]
     ELSE IF unit \in DOMAIN SI_MULTIPLIERS THEN number * SI_MULTIPLIERS[unit]
     ELSE IF unit = "B" \/ unit = "" THEN number
     ELSE -1

\* ------------------------------------------- naturals of unbounded size
\* Python's int is unbounded and its float is an IEEE 754 double with a 53
\* bit significand; both exceed the checker's integers.  A natural is the
\* sequence of its digits in base 2^15, least significant first, without a
\* leading zero; <<>> is 0.
SignificandBits == 53

LimbBits == 15

Base == 2 ^ LimbBits

Limb(a, i) == IF i >= 1 /\ i <= Len(a) THEN a[i] ELSE 0

Norm(a) ==
  LET nz == {i \in 1..Len(a) : a[i] # 0}
  IN IF nz = {} THEN <<>>
     ELSE SubSeq(a, 1, CHOOSE i \in nz : \A j \in nz : j <= i)

\* a natural below 2^31
OfInt(n) == Norm(<<n % Base, (n \div Base) % Base, n \div (Base * Base)>>)

\* the digits from i on of a + b + c, for a carry c of 0 or 1
RECURSIVE AddFrom(_, _, _, _)
AddFrom(a, b, i, c) ==
  IF i > Len(a) /\ i > Len(b)
  THEN (IF c = 0 THEN <<>> ELSE <<c>>)
  ELSE LET t == Limb(a, i) + Limb(b, i) + c
       IN <<t % Base>> \o AddFrom(a, b, i + 1, t \div Base)

AddB(a, b) == AddFrom(a, b, 1, 0)

\* the digits from i on of a * x + c, for a digit x and a carry c below Base
RECURSIVE MulLimbFrom(_, _, _, _)
MulLimbFrom(a, x, i, c) ==
  IF i > Len(a)
  THEN (IF c = 0 THEN <<>> ELSE <<c>>)
  ELSE LET t == a[i] * x + c
       IN <<t % Base>> \o MulLimbFrom(a, x, i + 1, t \div Base)

MulLimb(a, x) == IF x = 0 THEN <<>> ELSE MulLimbFrom(a, x, 1, 0)

\* a * Base^k
ShiftLimbs(a, k) == IF a = <<>> THEN <<>> ELSE [i \in 1..k |-> 0] \o a

\* a times the digits from i on of b
RECURSIVE MulFrom(_, _, _)
MulFrom(a, b, i) ==
  IF i > Len(b) THEN <<>>
  ELSE AddB(ShiftLimbs(MulLimb(a, b[i]), i - 1), MulFrom(a, b, i + 1))

MulB(a, b) == MulFrom(a, b, 1)

\* base ** k for a base below Base
RECURSIVE PowB(_, _)
PowB(base, k) == IF k = 0 THEN <<1>> ELSE MulLimb(PowB(base, k - 1), base)

\* the natural written by a sequence of decimal digits
RECURSIVE OfDigits(_)
OfDigits(ds) ==
  IF ds = <<>> THEN <<>>
  ELSE AddB(MulLimb(OfDigits(SubSeq(ds, 1, Len(ds) - 1)), 10),
            OfInt(ds[Len(ds)]))

\* long division of the digits 1..i of a, with the remainder r carried in
\* from the digits above them, by a divisor d of at most Base
RECURSIVE DivFrom(_, _, _, _)
DivFrom(a, d, i, r) ==
  IF i = 0 THEN [q |-> <<>>, r |-> r]
  ELSE LET t == r * Base + a[i]
           rest == DivFrom(a, d, i - 1, t % d)
       IN [q |-> Append(rest.q, t \div d), r |-> rest.r]

DivSmall(a, d) ==
  LET x == DivFrom(a, d, Len(a), 0) IN [q |-> Norm(x.q), r |-> x.r]

\* floor(a / 10^f), and whether the division left no remainder
RECURSIVE DivPow10(_, _)
DivPow10(a, f) ==
  IF f = 0 THEN [q |-> a, exact |-> TRUE]
  ELSE LET x == DivSmall(a, 10)
       IN IF x.r = 0 THEN DivPow10(x.q, f - 1)
          ELSE [q |-> DivPow10(x.q, f - 1).q, exact |-> FALSE]

\* the number of binary digits of a
BitLen(a) ==
  IF a = <<>> THEN 0
  ELSE LimbBits * (Len(a) - 1)
       + (CHOOSE k \in 1..LimbBits : 2 ^ (k - 1) <= a[Len(a)] /\ a[Len(a)] < 2 ^ k)

\* the binary digit k of a, counted from 1
BitAt(a, k) ==
  (Limb(a, (k - 1) \div LimbBits + 1) \div 2 ^ ((k - 1) % LimbBits)) % 2

\* a * 2^k and floor(a / 2^k)
ShiftLeft(a, k) ==
  LET w == k \div LimbBits
      r == k % LimbBits
      hi == 2 ^ (LimbBits - r)
  IN ShiftLimbs(Norm([i \in 1..(Len(a) + 1) |->
                        (Limb(a, i) % hi) * 2 ^ r + Limb(a, i - 1) \div hi]), w)

ShiftRight(a, k) ==
  LET w == k \div LimbBits
      r == k % LimbBits
      lo == 2 ^ r
  IN IF w >= Len(a) THEN <<>>
     ELSE Norm([i \in 1..(Len(a) - w) |->
                  Limb(a, i + w) \div lo + (Limb(a, i + w + 1) % lo) * 2 ^ (LimbBits - r)])

\* ------------------------------------------------------------------ float
\* A finite non-negative double is [m, e] with value m * 2^e and m at most
\* 2^53.  RoundFloat gives the double nearest to (q + f) * 2^e, ties to
\* even, where 0 <= f < 1 and sticky tells f > 0; q must have more than 53
\* binary digits when sticky is set.
RoundFloat(q, sticky, e) ==
  LET k == BitLen(q) - SignificandBits
  IN IF k <= 0 THEN [m |-> q, e |-> e]
     ELSE LET kept == ShiftRight(q, k)
              guard == BitAt(q, k)
              below == sticky \/ \E i \in 1..(k - 1) : BitAt(q, i) = 1
              up == guard = 1 /\ (below \/ BitAt(kept, 1) = 1)
          IN [m |-> IF up THEN AddB(kept, <<1>>) ELSE kept, e |-> e + k]

\* float(n) of an int n
FloatOfInt(n) == RoundFloat(n, FALSE, 0)

\* float("<whole>.<frac>"), both given as sequences of decimal digits.  A
\* fraction of f digits has 10^f below 2^(4f), so the quotient of a non-zero
\* number shifted by 53 + 4f + 1 places keeps more than 53 binary digits.
FloatOfDecimal(whole, frac) ==
  LET D == OfDigits(whole \o frac)
      f == Len(frac)
      shift == SignificandBits + 4 * f + 1
  IN IF f = 0 THEN FloatOfInt(D)
     ELSE LET x == DivPow10(ShiftLeft(D, shift), f)
          IN RoundFloat(x.q, ~x.exact, -shift)

\* x * y of two floats
FloatMul(x, y) ==
  IF x.m = <<>> \/ y.m = <<>> THEN [m |-> <<>>, e |-> 0]
  ELSE RoundFloat(MulB(x.m, y.m), FALSE, x.e + y.e)

\* int(x): truncation toward zero
IntOfFloat(x) ==
  IF x.e >= 0 THEN ShiftLeft(x.m, x.e) ELSE ShiftRight(x.m, -x.e)

\* ------------------------------------------------- size strings (utils.py)
\* A size string is a sequence of characters.  The classes \s, \d and
\* [a-zA-Z] of HUMAN_BYTESIZE_RE, restricted to the characters in use:
WhiteSpace == {" "}

DigitChars == <<"0", "1", "2", "3", "4", "5", "6", "7", "8", "9">>

Digits == {DigitChars[i] : i \in 1..Len(DigitChars)}

DigitVal(c) == (CHOOSE i \in 1..Len(DigitChars) : DigitChars[i] = c) - 1

UnitPrefixes == <<"K", "M", "G", "T", "P", "E", "Z", "Y">>

Letters == {UnitPrefixes[i] : i \in 1..Len(UnitPrefixes)} \cup {"i", "B", "b", "k", "I", "Q"}

\* the first position from i on whose character is outside the class
RECURSIVE SkipWhile(_, _, _)
SkipWhile(s, i, class) ==
  IF i <= Len(s) /\ s[i] \in class THEN SkipWhile(s, i + 1, class) ELSE i

\* HUMAN_BYTESIZE_RE.match: ^\s*(\d+(?:\.\d+)?)\s*([a-zA-Z]*)\s*$
\* the groups are returned as whole digits, fraction digits and unit
HumanBytesizeMatch(s) ==
  LET a == SkipWhile(s, 1, WhiteSpace)
      b == SkipWhile(s, a, Digits)
      hasfrac == /\ b <= Len(s)
                 /\ s[b] = "."
                 /\ SkipWhile(s, b + 1, Digits) > b + 1
      c == IF hasfrac THEN SkipWhile(s, b + 1, Digits) ELSE b
      d == SkipWhile(s, c, WhiteSpace)
      e == SkipWhile(s, d, Letters)
      f == SkipWhile(s, e, WhiteSpace)
  IN [matched |-> b > a /\ f = Len(s) + 1,
      whole |-> SubSeq(s, a, b - 1),
      frac |-> IF hasfrac THEN SubSeq(s, b + 1, c - 1) ELSE <<>>,
      unit |-> SubSeq(s, d, e - 1)]

PrefixIndex(c) == CHOOSE k \in 1..Len(UnitPrefixes) : UnitPrefixes[k] = c

InIE(unit) ==
  /\ Len(unit) = 3 /\ unit[2] = "i" /\ unit[3] = "B"
  /\ \E k \in 1..Len(UnitPrefixes) : UnitPrefixes[k] = unit[1]

InSI(unit) ==
  /\ Len(unit) = 2 /\ unit[2] = "B"
  /\ \E k \in 1..Len(UnitPrefixes) : UnitPrefixes[k] = unit[1]

UnitKnown(unit) == InIE(unit) \/ InSI(unit) \/ unit = <<"B">> \/ unit = <<>>

\* the multiplier of a recognized unit: 1024**k, 1000**k or 1
Multiplier(unit) ==
  IF InIE(unit) THEN PowB(1024, PrefixIndex(unit[1]))
  ELSE IF InSI(unit) THEN PowB(1000, PrefixIndex(unit[1]))
  ELSE <<1>>

Digitsof(cs) == [i \in 1..Len(cs) |-> DigitVal(cs[i])]

\* mutant of ConvertToBytes: unit 'B' is not recognized
ConvertToBytesNoB(size_str) ==
  LET g == HumanBytesizeMatch(size_str)
  IN IF ~g.matched
     THEN [exc |-> Exc("ValueError", "Invalid size format"), value |-> <<>>]
     ELSE IF ~(UnitKnown(g.unit) /\ g.unit # <<"B">>)
     THEN [exc |-> Exc("ValueError", "Unknown unit"), value |-> <<>>]
     ELSE [exc |-> NoExc,
           value |-> IntOfFloat(FloatMul(FloatOfDecimal(Digitsof(g.whole), Digitsof(g.frac)),
                                         FloatOfInt(Multiplier(g.unit))))]

\* convert_to_bytes (utils.py 14-25) on the characters of size_str; the
\* value is a natural in binary
ConvertToBytes(size_str) ==
  LET g == HumanBytesizeMatch(size_str)
  IN IF ~g.matched
     THEN [exc |-> Exc("ValueError", "Invalid size format"), value |-> <<>>]
     ELSE IF ~UnitKnown(g.unit)
     THEN [exc |-> Exc("ValueError", "Unknown unit"), value |-> <<>>]
     ELSE [exc |-> NoExc,
           value |-> IntOfFloat(FloatMul(FloatOfDecimal(Digitsof(g.whole), Digitsof(g.frac)),
                                         FloatOfInt(Multiplier(g.unit))))]

\* n * multiplier(unit) in exact arithmetic, truncated toward zero
ExactBytes(whole, frac, unit) ==
  DivPow10(MulB(OfDigits(Digitsof(whole \o frac)), Multiplier(unit)), Len(frac)).q

\* ---------------------------------------------------------- configuration
\* volume labels are modelled by their encoded length, len(label.encode())
LabelMax == 16

GoodDev ==
  [kind |-> "raw", size |-> <<256, "MiB">>, fs_type |-> "ext4",
   label_len |-> 4, has_uuid |-> FALSE]

DevShapes ==
  {GoodDev,
   [GoodDev EXCEPT !.kind = "qcow2"],
   [GoodDev EXCEPT !.fs_type = "xfs"],
   [GoodDev EXCEPT !.label_len = LabelMax],
   [GoodDev EXCEPT !.label_len = LabelMax + 1]}

\* rootfs.fmt as the list of its dot-separated parts
RootfsFmts == {<<"tar">>, <<"tar", "xz">>, <<"tar", "rar">>, <<"zip">>}

BuildConfigs ==
  [os_release : {"alpine", "debian"},
   os_version : {"3.19", "3.18"},
   fmt : RootfsFmts,
   has_block_devices : BOOLEAN,
   block_devices : SeqsUpTo(DevShapes, MaxDevs)]

\* the serialized BuildResult is BufLen bytes, numbered from 1
Buf == [i \in 1..BufLen |-> i]

VARIABLES
  cfg,          \* build_cfg read from stdin
  no_cleanup,   \* '--no-cleanup' in sys.argv
  pc,           \* position in main
  raised,       \* the exception propagating out of main, NoExc when none
  rc,           \* _rc of the entry shell
  build_result, \* build_result of main
  devs,         \* devs of build_blkdevs
  dev_status,   \* dev_status of build_blkdevs
  di,           \* index of the device build_blkdevs is provisioning
  ci,           \* index of the device cleanup_blkdevs is tearing down
  host,         \* the host: image files, loop devices, filesystems, mounts
  artifact,     \* content of the artifact file, "absent" when not written
  deployed,     \* mount points the artifact was (partly) extracted into
  calls,        \* history: the external tools invoked, in order
  stdout,       \* bytes written to sys.stdout.buffer
  buf_offset,   \* buf_offset of main's write loop
  tools_ok,     \* history: every external call so far ran to its end and succeeded
  try_exc,      \* history: the exception raised inside main's try block
  at_failure,   \* history: the device, the number of its stages that had
                \* succeeded and dev_status when a provisioning stage failed
  cleanups,     \* history: number of calls of cleanup_blkdevs
  torn,         \* history: devices safe_cleanup_blkdev was called for
  stage,        \* history: the pipeline stage executed last, or "interrupt"
  teardown_ok,  \* history: every teardown query and tool so far succeeded
  steps,        \* history: the functions safe_cleanup_blkdev called, in order
  ext_in,       \* arguments of a direct call of extract
  ext_out       \* its result

vars == <<cfg, no_cleanup, pc, raised, rc, build_result, devs, dev_status, di,
          ci, host, artifact, deployed, calls, stdout, buf_offset, tools_ok,
          try_exc, at_failure, cleanups, torn, stage, teardown_ok, steps, ext_in,
          ext_out>>

\* dev_status as build_blkdevs initialises it (build.py 58-72) for the
\* device of index i: paths are named by the device's index, a missing key
\* is "ABSENT", an empty dict "EMPTY"
InitStatus(i, dev) ==
  [size_bytes |-> convert_to_bytes(dev.size), kind |-> dev.kind, img_path |-> i,
   device_path |-> "ABSENT", device_info |-> "EMPTY",
   fs_label |-> dev.label_len,
   fs_uuid |-> IF dev.has_uuid THEN "cfg" ELSE "None",
   fs_info |-> "EMPTY", mount_point |-> i, mount_info |-> "EMPTY",
   file |-> "ABSENT", size |-> -1]

NoStatus == InitStatus(0, GoodDev)

NoFailure == [di |-> 0, stages |-> 0, status |-> NoStatus]

NoExtIn ==
  [src_exists |-> FALSE, dst_kind |-> "absent", hash |-> <<>>,
   compress_algo |-> "None", content |-> "orig", sum_rc |-> 0, tar_rc |-> 0]

NoExtOut == [exc |-> NoExc, tools |-> <<>>, extracted |-> FALSE]

EmptyHost == [img |-> {}, loop |-> {}, fs |-> {}, mnt |-> {}]

\* everything but cfg, no_cleanup, pc and the extract arguments
InitCommon ==
  /\ raised = NoExc
  /\ rc = 255
  /\ build_result = [rootfs |-> "None", block_devices |-> <<>>, artifacts |-> <<>>]
  /\ devs = <<>>
  /\ dev_status = NoStatus
  /\ di = 0
  /\ ci = 0
  /\ host = EmptyHost
  /\ artifact = "absent"
  /\ deployed = {}
  /\ calls = <<>>
  /\ stdout = <<>>
  /\ buf_offset = 0
  /\ tools_ok = TRUE
  /\ try_exc = NoExc
  /\ at_failure = NoFailure
  /\ cleanups = 0
  /\ torn = <<>>
  /\ stage = "none"
  /\ teardown_ok = TRUE
  /\ steps = <<>>
  /\ ext_out = NoExtOut

\* the pipeline starts with the configuration read (build.py 273-284)
Init ==
  /\ cfg \in BuildConfigs
  /\ cfg.has_block_devices \/ cfg.block_devices = <<>>
  /\ no_cleanup \in BOOLEAN
  /\ pc = "build_rootfs"
  /\ ext_in = NoExtIn
  /\ InitCommon


Call(tool, d) == [tool |-> tool, dev |-> d]

\* except RuntimeError as e: raise BuildError(f"<context>: {e}")
WrapRuntimeError(e, context) ==
  IF IsRuntimeError(e) THEN Exc("BuildError", context) ELSE e

\* ------------------------------------------------------------ build_rootfs
\* build_rootfs (build.py 112-146) and main 285-287.  alpine.init
\* (os_releases/alpine.py 40-130) fails when a tool fails ("tool_fail") and
\* when one of its unlink calls (97-98) finds no file of that very name
\* ("unlink_fail"; the second name is the unexpanded pattern '.SIGN.RSA.*').
BuildRootfs ==
  /\ pc = "build_rootfs"
  /\ \E o \in {"ok", "no_dir", "tool_fail", "unlink_fail"} :
       LET inner ==
             IF cfg.os_release = "alpine"
             THEN IF cfg.os_version # "3.19"
                  THEN Exc("BuildError", "Unsupported Alpine Version")
                  ELSE IF o = "tool_fail"
                  THEN Exc("RuntimeError", "Failed to Install Alpine Base")
                  ELSE IF o = "unlink_fail"
                  THEN Exc("FileNotFoundError", "No such file or directory")
                  ELSE NoExc
             ELSE Exc("BuildError", "Unsupported OS Release")
           e == IF o = "no_dir"
                THEN Exc("BuildError", "Rootfs path does not exist or is not a directory")
                ELSE WrapRuntimeError(inner, "Failed to build rootfs")
           ran == o # "no_dir" /\ cfg.os_release = "alpine" /\ cfg.os_version = "3.19"
       IN /\ calls' = IF ran THEN Append(calls, Call("apk", 0)) ELSE calls
          /\ tools_ok' = (tools_ok /\ o = "ok")
          /\ IF e = NoExc
             THEN /\ build_result' = [build_result EXCEPT !.rootfs = "built"]
                  /\ pc' = "package"
                  /\ UNCHANGED raised
             ELSE /\ raised' = e
                  /\ pc' = "exit"
                  /\ UNCHANGED build_result
  /\ stage' = "build_rootfs"
  /\ UNCHANGED <<cfg, no_cleanup, rc, devs, dev_status, di, ci, host, artifact,
                 deployed, stdout, buf_offset, try_exc, at_failure, cleanups,
                 torn, ext_in, ext_out,
                 teardown_ok, steps>>

\* ---------------------------------------------------------- package_rootfs
\* cfg['rootfs']['fmt'].startswith('tar.')
StartsWithTarDot(fmt) == Len(fmt) >= 2 /\ fmt[1] = "tar"

\* cfg['rootfs']['fmt'].split('.', maxsplit=1)[1]
AlgoOfFmt(fmt) == fmt[2]

\* mutant of block_devices_in: a configuration without the key is taken as
\* one with an empty list
block_devices_in_or_absent(build_cfg) == TRUE

\* 'block_devices' in build_cfg (build.py 289)
block_devices_in(build_cfg) == build_cfg.has_block_devices

\* package_rootfs (build.py 148-159) and main 288-289
PackageRootfs ==
  /\ pc = "package"
  /\ \E o \in {"ok", "exists", "tar_fail", "sum_fail"} :
       LET tar_rc == IF o = "tar_fail" THEN 1 ELSE 0
           sum_rc == IF o = "sum_fail" THEN 1 ELSE 0
           unsupported ==
             [exc |-> Exc("BuildError", "Unsupported RootFS Artifact Format"),
              tools |-> <<>>, written |-> FALSE,
              status |-> [path |-> "absent", fmt |-> <<>>, size_bytes |-> 0, hash |-> <<>>]]
           r == IF StartsWithTarDot(cfg.fmt)
                THEN TarCreate(o = "exists", AlgoOfFmt(cfg.fmt), tar_rc, sum_rc)
                ELSE IF cfg.fmt = <<"tar">>
                THEN TarCreate(o = "exists", "None", tar_rc, sum_rc)
                ELSE unsupported
       IN /\ calls' = calls \o [i \in 1..Len(r.tools) |-> Call(r.tools[i], 0)]
          /\ tools_ok' = (tools_ok /\ o = "ok")
          /\ artifact' = IF r.written THEN "orig"
                         ELSE IF o = "exists" THEN "foreign" ELSE artifact
          /\ IF r.exc = NoExc
             THEN /\ build_result' =
                       [build_result EXCEPT !.artifacts = @ \o <<r.status>>]
                  /\ pc' = IF block_devices_in(cfg) THEN "create" ELSE "emit"
                  /\ di' = IF block_devices_in(cfg) THEN 1 ELSE di
                  /\ UNCHANGED raised
             ELSE /\ raised' = r.exc
                  /\ pc' = "exit"
                  /\ UNCHANGED <<build_result, di>>
  /\ stage' = "package"
  /\ UNCHANGED <<cfg, no_cleanup, rc, devs, dev_status, ci, host, deployed,
                 stdout, buf_offset, try_exc, at_failure, cleanups, torn,
                 ext_in, ext_out,
                 teardown_ok, steps>>


\* ----------------------------------------------------------- build_blkdevs
\* an exception leaves build_blkdevs and with it main's try block (291)
ProvisionFails(e, stages, st) ==
  /\ raised' = e
  /\ try_exc' = e
  /\ at_failure' = [di |-> di, stages |-> stages, status |-> st]
  /\ dev_status' = st
  /\ pc' = "finally"

\* mutant of RawCreate: the exit status of qemu-img is not examined
RawCreateUnchecked(o) ==
  IF o = "no_parent"
  THEN Exc("RuntimeError", "Block Device parent directory does not exist")
  ELSE IF o = "exists"
  THEN Exc("RuntimeError", "Block Device already exists")
  ELSE NoExc

\* blkdev.raw.create (raw.py 17-39): the exception and the returned dict
RawCreate(o) ==
  IF o = "no_parent"
  THEN Exc("RuntimeError", "Block Device parent directory does not exist")
  ELSE IF o = "exists"
  THEN Exc("RuntimeError", "Block Device already exists")
  ELSE IF o = "tool_fail"
  THEN Exc("RuntimeError", "Failed to create raw block device")
  ELSE NoExc

\* the checks of blkdev.raw.create in their order (raw.py 19-20, 38) on the
\* state of the image path and the exit status of qemu-img
RawCreateOutcome(parent_exists, img_exists, returncode) ==
  IF ~parent_exists THEN "no_parent"
  ELSE IF img_exists THEN "exists"
  ELSE IF returncode # 0 THEN "tool_fail"
  ELSE "ok"

\* build_blkdevs 56-79: the head of the loop body and the create stage
BlkCreate ==
  /\ pc = "create"
  /\ di <= Len(cfg.block_devices)
  /\ LET dev == cfg.block_devices[di]
         st == InitStatus(di, dev)
     IN \E o \in {"ok", "no_parent", "exists", "tool_fail"} :
          LET e == IF st.size_bytes < 0
                   THEN Exc("ValueError", "Unknown unit")
                   ELSE IF dev.kind = "raw"
                   THEN WrapRuntimeError(RawCreate(o), "Failed to create block device")
                   ELSE WrapRuntimeError(Exc("BuildError", "Unknown Block Device Kind"),
                                         "Failed to create block device")
              invoked == st.size_bytes >= 0 /\ dev.kind = "raw" /\ o \in {"ok", "tool_fail"}
          IN /\ calls' = IF invoked THEN Append(calls, Call("qemu-img", di)) ELSE calls
             /\ tools_ok' = (tools_ok /\ o = "ok")
             /\ IF e = NoExc
                THEN /\ dev_status' = [st EXCEPT !.file = "img", !.size = st.size_bytes,
                                                 !.kind = "raw"]
                     /\ host' = [host EXCEPT !.img = @ \cup {di}]
                     /\ pc' = "attach"
                     /\ UNCHANGED <<raised, try_exc, at_failure>>
                ELSE /\ ProvisionFails(e, 0, st)
                     /\ UNCHANGED host
  /\ stage' = "create"
  /\ UNCHANGED <<cfg, no_cleanup, rc, build_result, devs, di, ci, artifact,
                 deployed, stdout, buf_offset, cleanups, torn, ext_in, ext_out,
                 teardown_ok, steps>>

\* blkdev.raw.attach (raw.py 41-67)
RawAttach(img_exists, o) ==
  IF ~img_exists
  THEN Exc("RuntimeError", "Image File does not exist")
  ELSE IF o = "tool_fail"
  THEN Exc("RuntimeError", "Failed to setup loop device")
  ELSE IF o = "node_missing"
  THEN Exc("RuntimeError", "Loop Device does not exist")
  ELSE NoExc

\* build_blkdevs 81-88: the attach stage
BlkAttach ==
  /\ pc = "attach"
  /\ LET dev == cfg.block_devices[di]
     IN \E o \in {"ok", "tool_fail", "node_missing"} :
          LET e == IF dev.kind = "raw"
                   THEN WrapRuntimeError(RawAttach(di \in host.img, o),
                                         "Failed to attach block device")
                   ELSE WrapRuntimeError(Exc("BuildError", "Unknown Block Device Kind"),
                                         "Failed to attach block device")
              invoked == dev.kind = "raw" /\ di \in host.img
              bound == invoked /\ o \in {"ok", "node_missing"}
          IN /\ calls' = IF invoked THEN Append(calls, Call("losetup -f", di)) ELSE calls
             /\ tools_ok' = (tools_ok /\ o = "ok")
             /\ host' = IF bound THEN [host EXCEPT !.loop = @ \cup {di}] ELSE host
             /\ IF e = NoExc
                THEN /\ dev_status' = [dev_status EXCEPT !.device_path = "loop",
                                                         !.device_info = "loop_dev"]
                     /\ pc' = "format"
                     /\ UNCHANGED <<raised, try_exc, at_failure>>
                ELSE ProvisionFails(e, 1, dev_status)
  /\ stage' = "attach"
  /\ UNCHANGED <<cfg, no_cleanup, rc, build_result, devs, di, ci, artifact,
                 deployed, stdout, buf_offset, cleanups, torn, ext_in, ext_out,
                 teardown_ok, steps>>

\* mutant of Ext4Format: the label test is `>= 16`
Ext4FormatOffByOne(label_len, o) ==
  IF o = "not_blk"
  THEN Exc("RuntimeError", "Device Path does not exist or is not a block device")
  ELSE IF label_len >= LabelMax
  THEN Exc("ValueError", "Volume Label must be 16 bytes or less")
  ELSE IF o = "tool_fail"
  THEN Exc("RuntimeError", "Failed to format block device")
  ELSE NoExc

\* fs.ext4.format (ext4.py 4-46); the label is given by its encoded length
Ext4Format(label_len, o) ==
  IF o = "not_blk"
  THEN Exc("RuntimeError", "Device Path does not exist or is not a block device")
  ELSE IF label_len > LabelMax
  THEN Exc("ValueError", "Volume Label must be 16 bytes or less")
  ELSE IF o = "tool_fail"
  THEN Exc("RuntimeError", "Failed to format block device")
  ELSE NoExc

\* build_blkdevs 90-95: the format stage
BlkFormat ==
  /\ pc = "format"
  /\ LET dev == cfg.block_devices[di]
     IN \E o \in {"ok", "not_blk", "tool_fail"} :
          LET e == IF dev.fs_type = "ext4"
                   THEN WrapRuntimeError(Ext4Format(dev.label_len, o),
                                         "Failed to format block device")
                   ELSE WrapRuntimeError(Exc("BuildError", "Unknown Filesystem Type"),
                                         "Failed to format block device")
              invoked == /\ dev.fs_type = "ext4"
                         /\ o \in {"ok", "tool_fail"}
                         /\ dev.label_len <= LabelMax
          IN /\ calls' = IF invoked THEN Append(calls, Call("mkfs.ext4", di)) ELSE calls
             /\ tools_ok' = (tools_ok /\ o = "ok")
             /\ IF e = NoExc
                THEN /\ dev_status' =
                          [dev_status EXCEPT
                             !.fs_label = dev.label_len,
                             !.fs_uuid = IF dev.has_uuid THEN "cfg" ELSE "generated",
                             !.fs_info = "ext4"]
                     /\ host' = [host EXCEPT !.fs = @ \cup {di}]
                     /\ pc' = "mount"
                     /\ UNCHANGED <<raised, try_exc, at_failure>>
                ELSE /\ ProvisionFails(e, 2, dev_status)
                     /\ UNCHANGED host
  /\ stage' = "format"
  /\ UNCHANGED <<cfg, no_cleanup, rc, build_result, devs, di, ci, artifact,
                 deployed, stdout, buf_offset, cleanups, torn, ext_in, ext_out,
                 teardown_ok, steps>>

\* blkdev.utils.mount (blkdev/utils.py 14-60)
Mount(o) ==
  IF o = "not_blk"
  THEN Exc("RuntimeError", "Device Path does not exist or is not a block device")
  ELSE IF o = "no_parent"
  THEN Exc("RuntimeError", "Mount Point parent directory does not exist")
  ELSE IF o = "no_mountpoint"
  THEN Exc("RuntimeError", "Mount Point does not exist or is not a directory")
  ELSE IF o = "tool_fail"
  THEN Exc("RuntimeError", "Failed to mount loop device")
  ELSE NoExc

\* build_blkdevs 97-104: the mount stage and the append to devs
BlkMount ==
  /\ pc = "mount"
  /\ LET dev == cfg.block_devices[di]
     IN \E o \in {"ok", "not_blk", "no_parent", "no_mountpoint", "tool_fail"} :
          LET e == IF dev.kind = "raw"
                   THEN WrapRuntimeError(Mount(o), "Failed to mount block device")
                   ELSE WrapRuntimeError(Exc("BuildError", "Unknown Block Device Kind"),
                                         "Failed to mount block device")
              invoked == dev.kind = "raw" /\ o \in {"ok", "tool_fail"}
              st == [dev_status EXCEPT !.mount_point = di, !.mount_info = "POPULATED"]
          IN /\ calls' = IF invoked THEN Append(calls, Call("mount", di)) ELSE calls
             /\ tools_ok' = (tools_ok /\ o = "ok")
             /\ IF e = NoExc
                THEN /\ dev_status' = st
                     /\ devs' = Append(devs, st)
                     /\ host' = [host EXCEPT !.mnt = @ \cup {di}]
                     /\ di' = di + 1
                     /\ pc' = "create"
                     /\ UNCHANGED <<raised, try_exc, at_failure>>
                ELSE /\ ProvisionFails(e, 3, dev_status)
                     /\ UNCHANGED <<host, devs, di>>
  /\ stage' = "mount"
  /\ UNCHANGED <<cfg, no_cleanup, rc, build_result, ci, artifact, deployed,
                 stdout, buf_offset, cleanups, torn, ext_in, ext_out,
                 teardown_ok, steps>>

\* mutant of BlkDevsReturn: the statuses are handed over last device first
BlkDevsReturnReversed ==
  /\ pc = "create"
  /\ di > Len(cfg.block_devices)
  /\ build_result' = [build_result EXCEPT !.block_devices =
                       @ \o [i \in 1..Len(devs) |-> devs[Len(devs) + 1 - i]]]
  /\ pc' = "deploy"
  /\ UNCHANGED <<cfg, no_cleanup, raised, rc, devs, dev_status, di, ci, host,
                 artifact, deployed, calls, stdout, buf_offset, tools_ok,
                 try_exc, at_failure, cleanups, torn, ext_in, ext_out,
                 stage, teardown_ok, steps>>

\* build_blkdevs 106 and main 291: the loop is over, devs is returned and
\* main extends build_result['block_devices'] with it
BlkDevsReturn ==
  /\ pc = "create"
  /\ di > Len(cfg.block_devices)
  /\ build_result' = [build_result EXCEPT !.block_devices = @ \o devs]
  /\ pc' = "deploy"
  /\ UNCHANGED <<cfg, no_cleanup, raised, rc, devs, dev_status, di, ci, host,
                 artifact, deployed, calls, stdout, buf_offset, tools_ok,
                 try_exc, at_failure, cleanups, torn, ext_in, ext_out,
                 stage, teardown_ok, steps>>


\* ----------------------------------------------------------- deploy_rootfs
\* mutant of TooManyDevices: two devices are let through
TooManyDevicesOffByOne(n) == n > 2

\* len(cfg['block_devices']) > 1 (build.py 169)
TooManyDevices(n) == n > 1

\* mutant of DeployRootfs: the artifact is checked against a checksum taken
\* at deploy time, not against the one recorded by the packaging stage
DeployRootfsFreshHash(n, fmt, rootfs_artifact, content, mp_kind, sum_rc, tar_rc) ==
  LET fail(e) == [exc |-> e, tools |-> <<>>, extracted |-> FALSE]
      fresh == <<"md5", ":">> \o Digest(<<"md5">>, content)
  IN
  IF TooManyDevices(n)
  THEN fail(Exc("NotImplementedError", "Only a single block device is supported for deployment"))
  ELSE IF n = 0
  THEN fail(Exc("IndexError", "list index out of range"))
  ELSE IF content = "absent"
  THEN fail(Exc("BuildError", "RootFS Artifact does not exist"))
  ELSE IF mp_kind # "dir"
  THEN fail(Exc("BuildError", "Bloc Device Mount Point does not exist or is not a directory"))
  ELSE IF StartsWithTarDot(fmt)
  THEN TarExtract(TRUE, mp_kind, fresh, AlgoOfFmt(fmt), content, sum_rc, tar_rc)
  ELSE IF fmt = <<"tar">>
  THEN TarExtract(TRUE, mp_kind, fresh, "None", content, sum_rc, tar_rc)
  ELSE fail(Exc("BuildError", "Unsupported RootFS Artifact Format"))

\* deploy_rootfs (build.py 161-182) for n configured devices, the artifact
\* status of the packaging stage and the state of the host at the call:
\* content is the content of the artifact file ("absent" when it is gone),
\* mp_kind tells what the mount point of the first device is.
DeployRootfs(n, fmt, rootfs_artifact, content, mp_kind, sum_rc, tar_rc) ==
  LET fail(e) == [exc |-> e, tools |-> <<>>, extracted |-> FALSE]
  IN
  IF TooManyDevices(n)
  THEN fail(Exc("NotImplementedError", "Only a single block device is supported for deployment"))
  ELSE IF n = 0
  THEN fail(Exc("IndexError", "list index out of range"))
  ELSE IF content = "absent"
  THEN fail(Exc("BuildError", "RootFS Artifact does not exist"))
  ELSE IF mp_kind # "dir"
  THEN fail(Exc("BuildError", "Bloc Device Mount Point does not exist or is not a directory"))
  ELSE IF StartsWithTarDot(fmt)
  THEN TarExtract(TRUE, mp_kind, rootfs_artifact.hash, AlgoOfFmt(fmt), content, sum_rc, tar_rc)
  ELSE IF fmt = <<"tar">>
  THEN TarExtract(TRUE, mp_kind, rootfs_artifact.hash, "None", content, sum_rc, tar_rc)
  ELSE fail(Exc("BuildError", "Unsupported RootFS Artifact Format"))

\* main 292: the deploy stage, last statement of the try block
Deploy ==
  /\ pc = "deploy"
  /\ \E o \in {"ok", "corrupt", "absent", "mp_file", "mp_absent", "sum_fail", "tar_fail"} :
       LET content == IF o = "corrupt" THEN "corrupt"
                      ELSE IF o = "absent" THEN "absent" ELSE artifact
           mp_kind == IF o = "mp_file" THEN "file"
                      ELSE IF o = "mp_absent" THEN "absent" ELSE "dir"
           r == DeployRootfs(Len(cfg.block_devices), cfg.fmt, build_result.artifacts[1],
                             content, mp_kind,
                             IF o = "sum_fail" THEN 1 ELSE 0,
                             IF o = "tar_fail" THEN 1 ELSE 0)
           wrote == \E i \in 1..Len(r.tools) : r.tools[i] = "tar -x"
       IN /\ artifact' = content
          /\ calls' = calls \o [i \in 1..Len(r.tools) |-> Call(r.tools[i], 1)]
          /\ tools_ok' = (tools_ok /\ o = "ok")
          /\ deployed' = IF wrote THEN deployed \cup {1} ELSE deployed
          /\ raised' = r.exc
          /\ try_exc' = r.exc
  /\ pc' = "finally"
  /\ stage' = "deploy"
  /\ UNCHANGED <<cfg, no_cleanup, rc, build_result, devs, dev_status, di, ci,
                 host, stdout, buf_offset, at_failure, cleanups, torn, ext_in,
                 ext_out,
                 teardown_ok, steps>>

\* ----------------------------------------------------------------- cleanup
\* mutant of Finally: the --no-cleanup option is not consulted
FinallyIgnoresOption ==
  /\ pc = "finally"
  /\ cleanups' = cleanups + 1
  /\ ci' = 1
  /\ pc' = "cleanup"
  /\ UNCHANGED <<cfg, no_cleanup, raised, rc, build_result, devs, dev_status,
                 di, host, artifact, deployed, calls, stdout, buf_offset,
                 tools_ok, try_exc, at_failure, torn, ext_in, ext_out,
                 stage, teardown_ok, steps>>

\* main 293-294: the finally clause
Finally ==
  /\ pc = "finally"
  /\ IF no_cleanup
     THEN /\ pc' = IF raised = NoExc THEN "emit" ELSE "exit"
          /\ UNCHANGED <<cleanups, ci>>
     ELSE /\ cleanups' = cleanups + 1
          /\ ci' = 1
          /\ pc' = "cleanup"
  /\ UNCHANGED <<cfg, no_cleanup, raised, rc, build_result, devs, dev_status,
                 di, host, artifact, deployed, calls, stdout, buf_offset,
                 tools_ok, try_exc, at_failure, torn, ext_in, ext_out,
                 stage, teardown_ok, steps>>

\* mutant of is_mounted: the mount table is not consulted
is_mounted_unconditionally(mount_path, h) == TRUE

\* blkdev.utils.is_mounted (blkdev/utils.py 5-12): the path is looked up in
\* the live mount table, /proc/mounts
is_mounted(mount_path, h) == mount_path \in h.mnt

\* mutant of is_attached: the loop-device table is not consulted
is_attached_unconditionally(img_file, h) == TRUE

\* blkdev.raw.is_attached (blkdev/raw.py 12-15): the image is looked up, by
\* its path, among the backing files of the live loop-device table
is_attached(img_file, h) == img_file \in h.loop

\* blkdev.utils.unmount (blkdev/utils.py 62-75): the exception it raises
Unmount(um) ==
  IF um = "mp_missing"
  THEN Exc("RuntimeError", "Mount Point does not exist or is not a directory")
  ELSE IF um = "fail" THEN Exc("RuntimeError", "Failed to unmount loop device")
  ELSE NoExc

\* blkdev.raw.cleanup (blkdev/raw.py 69-83): the exception it raises
RawCleanup(dt) ==
  IF dt = "node_missing" THEN Exc("RuntimeError", "Loop Device does not exist")
  ELSE IF dt = "fail" THEN Exc("RuntimeError", "Failed to cleanup loop device")
  ELSE NoExc

\* mutant of LosetupDetach: the image file is removed with the loop device
LosetupDetachRemovesImage(h, img_file) ==
  [h EXCEPT !.loop = @ \ {img_file}, !.img = @ \ {img_file}]

\* losetup -d <loop_dev> (blkdev/raw.py 75-82) on the host h: the loop device
\* bound to the image is released, the image file stays
LosetupDetach(h, img_file) == [h EXCEPT !.loop = @ \ {img_file}]

\* mutant of BareExcept: the exception is raised again
BareExceptReraises(e) == e

\* the clause `except: logger...warning(...)` of build.py 32 and 45: the
\* exception e of the guarded call is logged and none goes on
BareExcept(e) == NoExc

\* mutant of SafeCleanupBlkdev: the loop device is never detached
SafeCleanupBlkdevSkipsDetach(dev, h, mq, um, aq, dt) ==
  LET d == dev.img_path
      \* lines 24-33; a missing or empty mount_point is the path 0
      has_mp == dev.mount_point # 0
      mounted == has_mp /\ dev.mount_point \in h.mnt
      um_tools == IF mounted /\ um \in {"ok", "fail"} THEN <<"umount">> ELSE <<>>
      h1 == IF mounted /\ um = "ok"
            THEN [h EXCEPT !.mnt = @ \ {dev.mount_point}] ELSE h
      \* lines 35-47
      attached == d \in h1.loop
      dt_tools == <<>>
      h2 == h1
      \* the functions called, in order
      um_steps == (IF has_mp THEN <<"is_mounted">> ELSE <<>>)
                    \o (IF mounted THEN <<"unmount">> ELSE <<>>)
      dt_steps == <<"is_attached">> \o (IF FALSE THEN <<"cleanup">> ELSE <<>>)
  IN
  IF dev.device_path = "ABSENT"
  THEN [exc |-> Exc("KeyError", "device_path"), host |-> h, tools |-> <<>>,
        steps |-> <<>>]
  ELSE IF has_mp /\ mq = "raise"
  THEN [exc |-> Exc("OSError", "cannot read the mount table"), host |-> h,
        tools |-> <<>>, steps |-> <<"is_mounted">>]
  ELSE IF dev.kind # "raw"
  THEN [exc |-> Exc("BuildError", "Unknown Block Device Kind"), host |-> h1,
        tools |-> um_tools, steps |-> um_steps]
  ELSE IF aq = "fail"
  THEN [exc |-> Exc("RuntimeError", "Failed to list loop devices"), host |-> h1,
        tools |-> um_tools \o <<"losetup --json">>,
        steps |-> um_steps \o <<"is_attached">>]
  ELSE [exc |-> NoExc, host |-> h2,
        tools |-> um_tools \o <<"losetup --json">> \o dt_tools,
        steps |-> um_steps \o dt_steps]

\* mutant of SafeCleanupBlkdev: the loop device is detached, then the mount
\* point unmounted
SafeCleanupBlkdevDetachFirst(dev, h, mq, um, aq, dt) ==
  LET d == dev.img_path
      \* lines 24-33; a missing or empty mount_point is the path 0
      has_mp == dev.mount_point # 0
      mounted == has_mp /\ is_mounted(dev.mount_point, h)
      um_tools == IF mounted /\ um \in {"ok", "fail"} THEN <<"umount">> ELSE <<>>
      h1 == IF mounted /\ um = "ok"
            THEN [h EXCEPT !.mnt = @ \ {dev.mount_point}] ELSE h
      um_exc == IF mounted THEN BareExcept(Unmount(um)) ELSE NoExc
      \* lines 35-47
      attached == is_attached(d, h1)
      dt_tools == IF attached /\ dt \in {"ok", "fail"} THEN <<"losetup -d">> ELSE <<>>
      h2 == IF attached /\ dt = "ok" THEN [h1 EXCEPT !.loop = @ \ {d}] ELSE h1
      dt_exc == IF attached THEN BareExcept(RawCleanup(dt)) ELSE NoExc
      \* the functions called, in order
      um_steps == (IF has_mp THEN <<"is_mounted">> ELSE <<>>)
                    \o (IF mounted THEN <<"unmount">> ELSE <<>>)
      dt_steps == <<"is_attached">> \o (IF attached THEN <<"cleanup">> ELSE <<>>)
  IN
  IF dev.device_path = "ABSENT"
  THEN [exc |-> Exc("KeyError", "device_path"), host |-> h, tools |-> <<>>,
        steps |-> <<>>]
  ELSE IF has_mp /\ mq = "raise"
  THEN [exc |-> Exc("OSError", "cannot read the mount table"), host |-> h,
        tools |-> <<>>, steps |-> <<"is_mounted">>]
  ELSE IF um_exc # NoExc
  THEN [exc |-> um_exc, host |-> h1, tools |-> um_tools, steps |-> um_steps]
  ELSE IF dev.kind # "raw"
  THEN [exc |-> Exc("BuildError", "Unknown Block Device Kind"), host |-> h1,
        tools |-> um_tools, steps |-> um_steps]
  ELSE IF aq = "fail"
  THEN [exc |-> Exc("RuntimeError", "Failed to list loop devices"), host |-> h1,
        tools |-> um_tools \o <<"losetup --json">>,
        steps |-> um_steps \o <<"is_attached">>]
  ELSE [exc |-> dt_exc, host |-> h2,
        tools |-> <<"losetup --json">> \o dt_tools \o um_tools,
        steps |-> dt_steps \o um_steps]

\* safe_cleanup_blkdev (build.py 19-49) on the status dev with the host h.
\*   mq  is_mounted: "live" reads the mount table, "raise" fails to
\*   um  unmount: "ok", "mp_missing" (its own check fails) or "fail"
\*   aq  is_attached: "live" reads the loop table, "fail" when losetup fails
\*   dt  raw.cleanup: "ok", "node_missing" (its own check fails) or "fail"
\* Returns the exception that leaves it, the host, the tools invoked and the
\* functions called.
SafeCleanupBlkdev(dev, h, mq, um, aq, dt) ==
  LET d == dev.img_path
      \* lines 24-33; a missing or empty mount_point is the path 0
      has_mp == dev.mount_point # 0
      mounted == has_mp /\ is_mounted(dev.mount_point, h)
      um_tools == IF mounted /\ um \in {"ok", "fail"} THEN <<"umount">> ELSE <<>>
      h1 == IF mounted /\ um = "ok"
            THEN [h EXCEPT !.mnt = @ \ {dev.mount_point}] ELSE h
      um_exc == IF mounted THEN BareExcept(Unmount(um)) ELSE NoExc
      \* lines 35-47
      attached == is_attached(d, h1)
      dt_tools == IF attached /\ dt \in {"ok", "fail"} THEN <<"losetup -d">> ELSE <<>>
      h2 == IF attached /\ dt = "ok" THEN LosetupDetach(h1, d) ELSE h1
      dt_exc == IF attached THEN BareExcept(RawCleanup(dt)) ELSE NoExc
      \* the functions called, in order
      um_steps == (IF has_mp THEN <<"is_mounted">> ELSE <<>>)
                    \o (IF mounted THEN <<"unmount">> ELSE <<>>)
      dt_steps == <<"is_attached">> \o (IF attached THEN <<"cleanup">> ELSE <<>>)
  IN
  IF dev.device_path = "ABSENT"
  THEN [exc |-> Exc("KeyError", "device_path"), host |-> h, tools |-> <<>>,
        steps |-> <<>>]
  ELSE IF has_mp /\ mq = "raise"
  THEN [exc |-> Exc("OSError", "cannot read the mount table"), host |-> h,
        tools |-> <<>>, steps |-> <<"is_mounted">>]
  ELSE IF um_exc # NoExc
  THEN [exc |-> um_exc, host |-> h1, tools |-> um_tools, steps |-> um_steps]
  ELSE IF dev.kind # "raw"
  THEN [exc |-> Exc("BuildError", "Unknown Block Device Kind"), host |-> h1,
        tools |-> um_tools, steps |-> um_steps]
  ELSE IF aq = "fail"
  THEN [exc |-> Exc("RuntimeError", "Failed to list loop devices"), host |-> h1,
        tools |-> um_tools \o <<"losetup --json">>,
        steps |-> um_steps \o <<"is_attached">>]
  ELSE [exc |-> dt_exc, host |-> h2,
        tools |-> um_tools \o <<"losetup --json">> \o dt_tools,
        steps |-> um_steps \o dt_steps]

\* cleanup_blkdevs (build.py 108-110): one iteration of its loop
CleanupDev ==
  /\ pc = "cleanup"
  /\ ci <= Len(build_result.block_devices)
  /\ \E mq \in {"live", "raise"}, um \in {"ok", "mp_missing", "fail"},
        aq \in {"live", "fail"}, dt \in {"ok", "node_missing", "fail"} :
       LET dev == build_result.block_devices[ci]
           r == SafeCleanupBlkdev(dev, host, mq, um, aq, dt)
       IN /\ host' = r.host
          /\ calls' = calls \o [i \in 1..Len(r.tools) |-> Call(r.tools[i], dev.img_path)]
          /\ tools_ok' = (tools_ok /\ mq = "live" /\ um = "ok" /\ aq = "live" /\ dt = "ok")
          /\ teardown_ok' =
               (teardown_ok /\ mq = "live" /\ um = "ok" /\ aq = "live" /\ dt = "ok")
          /\ torn' = Append(torn, dev.img_path)
          /\ steps' = steps \o [i \in 1..Len(r.steps) |-> Call(r.steps[i], dev.img_path)]
          /\ IF r.exc = NoExc
             THEN /\ ci' = ci + 1
                  /\ pc' = "cleanup"
                  /\ UNCHANGED raised
             ELSE /\ raised' = r.exc
                  /\ pc' = "exit"
                  /\ UNCHANGED ci
  /\ UNCHANGED <<cfg, no_cleanup, rc, build_result, devs, dev_status, di,
                 artifact, deployed, stdout, buf_offset, try_exc, at_failure,
                 cleanups, ext_in, ext_out,
                 stage>>

\* cleanup_blkdevs returns: the try statement re-raises the pending exception
\* or main goes on to the result
CleanupReturn ==
  /\ pc = "cleanup"
  /\ ci > Len(build_result.block_devices)
  /\ pc' = IF raised = NoExc THEN "emit" ELSE "exit"
  /\ UNCHANGED <<cfg, no_cleanup, raised, rc, build_result, devs, dev_status,
                 di, ci, host, artifact, deployed, calls, stdout, buf_offset,
                 tools_ok, try_exc, at_failure, cleanups, torn, ext_in, ext_out,
                 stage, teardown_ok, steps>>

\* ------------------------------------------------------------------ result
\* main 296-299: one iteration of the write loop.  stdout accepts n bytes of
\* the slice it is given, or the write raises after k bytes went out (the
\* reader of the pipe is gone).
WriteResult ==
  /\ pc = "emit"
  /\ buf_offset < BufLen
  /\ \/ \E n \in 1..BufLen :
          /\ stdout' = stdout \o SubSeq(Buf, 1, n)
          /\ buf_offset' = buf_offset + n
          /\ UNCHANGED <<pc, raised, tools_ok>>
     \/ \E k \in 0..(BufLen - 1) :
          /\ stdout' = stdout \o SubSeq(Buf, 1, k)
          /\ raised' = Exc("OSError", "Broken pipe")
          /\ tools_ok' = FALSE
          /\ pc' = "exit"
          /\ UNCHANGED buf_offset
  /\ UNCHANGED <<cfg, no_cleanup, rc, build_result, devs,
                 dev_status, di, ci, host, artifact, deployed, calls,
                 try_exc, at_failure, cleanups, torn, ext_in, ext_out,
                 stage, teardown_ok, steps>>

\* main 301 and build.py 351: main returns 0
MainReturn ==
  /\ pc = "emit"
  /\ buf_offset >= BufLen
  /\ rc' = 0
  /\ pc' = "done"
  /\ UNCHANGED <<cfg, no_cleanup, raised, build_result, devs, dev_status, di,
                 ci, host, artifact, deployed, calls, stdout, buf_offset,
                 tools_ok, try_exc, at_failure, cleanups, torn, ext_in, ext_out,
                 stage, teardown_ok, steps>>

\* mutant of ExitCode: the clause for BuildError catches its base class
ExitCodeRuntimeErrorFirst(e) ==
  IF IsInterrupt(e) THEN 4
  ELSE IF IsRuntimeError(e) THEN 1
  ELSE IF IsCLIError(e) THEN 2
  ELSE 3

\* the except clauses of the entry shell (build.py 352-355), in order
ExitCode(e) ==
  IF IsInterrupt(e) THEN 4
  ELSE IF IsCLIError(e) THEN 2
  ELSE IF IsBuildError(e) THEN 1
  ELSE 3

\* build.py 351-357: an exception leaves main
MainRaises ==
  /\ pc = "exit"
  /\ rc' = ExitCode(raised)
  /\ pc' = "done"
  /\ UNCHANGED <<cfg, no_cleanup, raised, build_result, devs, dev_status, di,
                 ci, host, artifact, deployed, calls, stdout, buf_offset,
                 tools_ok, try_exc, at_failure, cleanups, torn, ext_in, ext_out,
                 stage, teardown_ok, steps>>

\* the statements of main's try block (build.py 291-292)
TryBlock == {"create", "attach", "format", "mount", "deploy"}

\* A KeyboardInterrupt is raised in main outside its finally clause: before
\* the try statement or in the write loop it leaves main at once (build.py
\* 352), inside the try block it first enters the finally clause (293).
Interrupt ==
  /\ pc \in {"build_rootfs", "package", "emit"} \cup TryBlock
  /\ raised' = Exc("KeyboardInterrupt", "none")
  /\ try_exc' = IF pc \in TryBlock THEN Exc("KeyboardInterrupt", "none") ELSE try_exc
  /\ pc' = IF pc \in TryBlock THEN "finally" ELSE "exit"
  /\ tools_ok' = FALSE
  /\ stage' = "interrupt"
  /\ UNCHANGED <<cfg, no_cleanup, rc, build_result, devs, dev_status, di, ci,
                 host, artifact, deployed, calls, stdout, buf_offset,
                 at_failure, cleanups, torn, ext_in, ext_out, teardown_ok, steps>>

Next ==
  \/ BuildRootfs
  \/ PackageRootfs
  \/ BlkCreate
  \/ BlkAttach
  \/ BlkFormat
  \/ BlkMount
  \/ BlkDevsReturn
  \/ Deploy
  \/ Finally
  \/ CleanupDev
  \/ CleanupReturn
  \/ WriteResult
  \/ MainReturn
  \/ Interrupt
  \/ MainRaises

Spec == Init /\ [][Next]_vars


\* ------------------------------------------------------- main, as written
InitMain ==
  /\ cfg \in BuildConfigs
  /\ cfg.has_block_devices \/ cfg.block_devices = <<>>
  /\ no_cleanup \in BOOLEAN
  /\ pc = "main"
  /\ ext_in = NoExtIn
  /\ InitCommon

\* main 260-266: the environment checks
MainCheckEnv ==
  /\ pc = "main"
  /\ \E o \in {"ok", "no_os_release", "not_alpine", "not_root"} :
       LET e == IF o = "no_os_release"
                THEN Exc("FileNotFoundError", "/etc/os-release")
                ELSE IF o = "not_alpine"
                THEN Exc("BuildError", "Not running in an Alpine environment")
                ELSE IF o = "not_root"
                THEN Exc("BuildError", "Must run as root")
                ELSE NoExc
       IN /\ raised' = e
          /\ tools_ok' = (tools_ok /\ o = "ok")
          /\ pc' = IF e = NoExc THEN "build_kernel" ELSE "exit"
  /\ UNCHANGED <<cfg, no_cleanup, rc, build_result, devs, dev_status, di, ci,
                 host, artifact, deployed, calls, stdout, buf_offset, try_exc,
                 at_failure, cleanups, torn, stage, teardown_ok, steps, ext_in, ext_out>>

\* the parameters of kernel.utils.clean without a default (kernel/utils.py
\* 133-139)
CleanRequired == {"kernel_src_dir", "target_arch", "build_version"}

\* the keywords of the call of clean in build_kernel (build.py 230-232)
CleanPassed == {"kernel_src_dir"}

\* kernel.utils.clean as build_kernel calls it
KernelClean(passed, o) ==
  IF ~(CleanRequired \subseteq passed)
  THEN Exc("TypeError", "clean() missing required positional arguments")
  ELSE IF o = "clean_fail"
  THEN Exc("RuntimeError", "Failed to clean the Kernel Source Directory")
  ELSE NoExc

\* build_kernel (build.py 184-257): the exception that leaves it.  No path
\* returns: the function ends with raise NotImplementedError.
BuildKernelRaises(o) ==
  IF o = "fetch_src_fail"
  THEN Exc("RuntimeError", "Failed to fetch the Linux Kernel Source")
  ELSE IF o = "fetch_info_fail"
  THEN Exc("RuntimeError", "Failed to fetch the Alpine Linux Kernel Package Build Info")
  ELSE IF KernelClean(CleanPassed, o) # NoExc
  THEN KernelClean(CleanPassed, o)
  ELSE IF o = "apply_fail"
  THEN Exc("RuntimeError", "Failed to apply Patch")
  ELSE IF o = "vmlinux_fail"
  THEN Exc("RuntimeError", "Failed to build the Linux Kernel")
  ELSE Exc("NotImplementedError", "build_kernel")

\* main 270: the development call of build_kernel
BuildKernel ==
  /\ pc = "build_kernel"
  /\ \E o \in {"ok", "fetch_src_fail", "fetch_info_fail", "clean_fail",
               "apply_fail", "vmlinux_fail"} :
       /\ raised' = BuildKernelRaises(o)
       /\ tools_ok' = (tools_ok /\ o = "ok")
       /\ calls' = IF o = "fetch_src_fail"
                   THEN Append(calls, Call("curl", 0))
                   ELSE calls \o <<Call("curl", 0), Call("curl", 0)>>
  /\ stage' = "build_kernel"
  /\ pc' = "exit"
  /\ UNCHANGED <<cfg, no_cleanup, rc, build_result, devs, dev_status, di, ci,
                 host, artifact, deployed, stdout, buf_offset, try_exc,
                 at_failure, cleanups, torn, teardown_ok, steps, ext_in, ext_out>>

NextMain ==
  \/ MainCheckEnv
  \/ BuildKernel
  \/ MainRaises

SpecMain == InitMain /\ [][NextMain]_vars

\* ------------------------------------------- extract on arbitrary arguments
ExtractArgs ==
  [src_exists : BOOLEAN,
   dst_kind : {"dir", "file", "absent"},
   hash : SeqsUpTo(HashTokens, MaxHashLen),
   compress_algo : {"None", "xz", "rar"},
   content : Contents,
   sum_rc : {0, 1},
   tar_rc : {0, 1}]

InitExtract ==
  /\ cfg = [os_release |-> "alpine", os_version |-> "3.19", fmt |-> <<"tar">>,
            has_block_devices |-> FALSE, block_devices |-> <<>>]
  /\ no_cleanup = FALSE
  /\ pc = "extract"
  /\ ext_in \in ExtractArgs
  /\ InitCommon

\* a call extract(src, dst, hash, compress_algo) with the arguments ext_in
ExtractCall ==
  /\ pc = "extract"
  /\ LET r == TarExtract(ext_in.src_exists, ext_in.dst_kind, ext_in.hash,
                         ext_in.compress_algo, ext_in.content, ext_in.sum_rc,
                         ext_in.tar_rc)
     IN /\ ext_out' = r
        /\ calls' = calls \o [i \in 1..Len(r.tools) |-> Call(r.tools[i], 1)]
        /\ deployed' = IF \E i \in 1..Len(r.tools) : r.tools[i] = "tar -x"
                       THEN deployed \cup {1} ELSE deployed
  /\ pc' = "extracted"
  /\ UNCHANGED <<cfg, no_cleanup, raised, rc, build_result, devs, dev_status,
                 di, ci, host, artifact, stdout, buf_offset, tools_ok, try_exc,
                 at_failure, cleanups, torn, stage, teardown_ok, steps, ext_in>>

NextExtract == ExtractCall

SpecExtract == InitExtract /\ [][NextExtract]_vars


\* ------------------------------- safe_cleanup_blkdev on any partial status
\* the BlkDevStatus of device 1 after n of its four stages succeeded, as the
\* stages of build_blkdevs leave it; with_mp tells whether the status carries
\* a mount_point before the mount stage
StatusAfter(n, kind, with_mp) ==
  LET s0 == [InitStatus(1, GoodDev) EXCEPT
               !.kind = kind,
               !.mount_point = IF with_mp \/ n = 4 THEN 1 ELSE 0]
      s1 == IF n >= 1
            THEN [s0 EXCEPT !.file = "img", !.size = s0.size_bytes] ELSE s0
      s2 == IF n >= 2
            THEN [s1 EXCEPT !.device_path = "loop", !.device_info = "loop_dev"]
            ELSE s1
      s3 == IF n >= 3
            THEN [s2 EXCEPT !.fs_uuid = "generated", !.fs_info = "ext4"] ELSE s2
  IN IF n >= 4 THEN [s3 EXCEPT !.mount_info = "POPULATED"] ELSE s3

\* the host after n stages of device 1 succeeded
HostAfter(n) ==
  [img |-> IF n >= 1 THEN {1} ELSE {},
   loop |-> IF n >= 2 THEN {1} ELSE {},
   fs |-> IF n >= 3 THEN {1} ELSE {},
   mnt |-> IF n >= 4 THEN {1} ELSE {}]

\* safe_cleanup_blkdev is about to be called on a status of device 1
InitCleanup ==
  /\ cfg = [os_release |-> "alpine", os_version |-> "3.19", fmt |-> <<"tar">>,
            has_block_devices |-> TRUE, block_devices |-> <<GoodDev>>]
  /\ no_cleanup = FALSE
  /\ pc = "safe_cleanup"
  /\ \E n \in 1..4, kind \in {"raw", "qcow2"}, with_mp \in BOOLEAN :
       /\ dev_status = StatusAfter(n, kind, with_mp)
       /\ host = HostAfter(n)
  /\ raised = NoExc
  /\ rc = 255
  /\ build_result = [rootfs |-> "built", block_devices |-> <<>>,
                     artifacts |-> <<TarCreate(FALSE, "None", 0, 0).status>>]
  /\ devs = <<>>
  /\ di = 1
  /\ ci = 1
  /\ artifact = "orig"
  /\ deployed = {}
  /\ calls = <<>>
  /\ stdout = <<>>
  /\ buf_offset = 0
  /\ tools_ok = TRUE
  /\ try_exc = NoExc
  /\ at_failure = NoFailure
  /\ cleanups = 0
  /\ torn = <<>>
  /\ stage = "none"
  /\ teardown_ok = TRUE
  /\ steps = <<>>
  /\ ext_in = NoExtIn
  /\ ext_out = NoExtOut

\* a call safe_cleanup_blkdev(dev_status); the first call is followed by a
\* second one on the same status when it returned
SafeCleanupCall ==
  /\ pc \in {"safe_cleanup", "safe_cleanup_again"}
  /\ \E mq \in {"live", "raise"}, um \in {"ok", "mp_missing", "fail"},
        aq \in {"live", "fail"}, dt \in {"ok", "node_missing", "fail"} :
       LET r == SafeCleanupBlkdev(dev_status, host, mq, um, aq, dt)
       IN /\ host' = r.host
          /\ calls' = calls \o [i \in 1..Len(r.tools) |-> Call(r.tools[i], dev_status.img_path)]
          /\ tools_ok' = (tools_ok /\ mq = "live" /\ um = "ok" /\ aq = "live" /\ dt = "ok")
          /\ teardown_ok' =
               (teardown_ok /\ mq = "live" /\ um = "ok" /\ aq = "live" /\ dt = "ok")
          /\ torn' = Append(torn, dev_status.img_path)
          /\ steps' = steps \o [i \in 1..Len(r.steps) |-> Call(r.steps[i], dev_status.img_path)]
          /\ raised' = r.exc
          /\ pc' = IF r.exc # NoExc THEN "cleanup_raised"
                   ELSE IF pc = "safe_cleanup" THEN "safe_cleanup_again"
                   ELSE "cleaned_twice"
  /\ UNCHANGED <<cfg, no_cleanup, rc, build_result, devs, dev_status, di, ci,
                 artifact, deployed, stdout, buf_offset, try_exc, at_failure,
                 cleanups, ext_in, ext_out, stage>>

NextCleanup == SafeCleanupCall

SpecCleanup == InitCleanup /\ [][NextCleanup]_vars

\* ------------------------------------- the two creates on arbitrary targets
\* compress_algo arguments: None, the seven supported names and an unknown one
CodecAlgos == {"None", "rar"} \cup SupportedAlgos

\* op names the function called; dst_exists and parent_exists describe the
\* target path (the artifact, the image file) before the call
CodecArgs ==
  {a \in [op : {"tar.create", "raw.create"},
          dst_exists : BOOLEAN,
          parent_exists : BOOLEAN,
          compress_algo : CodecAlgos,
          tool_rc : {0, 1},
          sum_rc : {0, 1}] :
     /\ a.dst_exists => a.parent_exists
     /\ a.op = "raw.create" => (a.compress_algo = "None" /\ a.sum_rc = 0)}

\* artifact.tar.create or blkdev.raw.create is about to be called; a target
\* that exists has foreign content
InitCodec ==
  /\ cfg = [os_release |-> "alpine", os_version |-> "3.19", fmt |-> <<"tar">>,
            has_block_devices |-> FALSE, block_devices |-> <<>>]
  /\ no_cleanup = FALSE
  /\ ext_in \in CodecArgs
  /\ pc = "codec"
  /\ artifact = IF ext_in.op = "tar.create" /\ ext_in.dst_exists
                THEN "foreign" ELSE "absent"
  /\ host = [EmptyHost EXCEPT
               !.img = IF ext_in.op = "raw.create" /\ ext_in.dst_exists
                       THEN {1} ELSE {}]
  /\ raised = NoExc
  /\ rc = 255
  /\ build_result = [rootfs |-> "built", block_devices |-> <<>>, artifacts |-> <<>>]
  /\ devs = <<>>
  /\ dev_status = NoStatus
  /\ di = 0
  /\ ci = 0
  /\ deployed = {}
  /\ calls = <<>>
  /\ stdout = <<>>
  /\ buf_offset = 0
  /\ tools_ok = TRUE
  /\ try_exc = NoExc
  /\ at_failure = NoFailure
  /\ cleanups = 0
  /\ torn = <<>>
  /\ stage = "none"
  /\ teardown_ok = TRUE
  /\ steps = <<>>
  /\ ext_out = NoExtOut

\* a call artifact.tar.create(src, dst, compress_algo)
TarCreateCall ==
  /\ pc = "codec"
  /\ ext_in.op = "tar.create"
  /\ LET r == TarCreate(ext_in.dst_exists, ext_in.compress_algo, ext_in.tool_rc,
                        ext_in.sum_rc)
     IN /\ calls' = calls \o [i \in 1..Len(r.tools) |-> Call(r.tools[i], 0)]
        /\ artifact' = IF r.written THEN "orig" ELSE artifact
        /\ raised' = r.exc
        /\ build_result' =
             IF r.exc = NoExc
             THEN [build_result EXCEPT !.artifacts = <<r.status>>]
             ELSE build_result
        /\ pc' = IF r.exc = NoExc THEN "created" ELSE "codec_done"
  /\ tools_ok' = (ext_in.tool_rc = 0 /\ ext_in.sum_rc = 0)
  /\ UNCHANGED <<cfg, no_cleanup, rc, devs, dev_status, di, ci, host, deployed,
                 stdout, buf_offset, try_exc, at_failure, cleanups, torn,
                 stage, teardown_ok, steps, ext_in, ext_out>>

\* a call artifact.tar.extract(dst, dir, hash, compress_algo) on the artifact
\* just created, with the hash create returned and the same compress_algo
ExtractCreated ==
  /\ pc = "created"
  /\ \E sum_rc \in {0, 1}, tar_rc \in {0, 1} :
       LET r == TarExtract(TRUE, "dir", build_result.artifacts[1].hash,
                           ext_in.compress_algo, artifact, sum_rc, tar_rc)
       IN /\ ext_out' = r
          /\ calls' = calls \o [i \in 1..Len(r.tools) |-> Call(r.tools[i], 1)]
          /\ deployed' = IF r.extracted THEN deployed \cup {1} ELSE deployed
          /\ tools_ok' = (tools_ok /\ sum_rc = 0 /\ tar_rc = 0)
  /\ pc' = "codec_done"
  /\ UNCHANGED <<cfg, no_cleanup, raised, rc, build_result, devs, dev_status,
                 di, ci, host, artifact, stdout, buf_offset, try_exc,
                 at_failure, cleanups, torn, stage, teardown_ok, steps, ext_in>>

\* a call blkdev.raw.create(img_file, size_bytes) for the image of device 1
RawCreateCall ==
  /\ pc = "codec"
  /\ ext_in.op = "raw.create"
  /\ LET o == RawCreateOutcome(ext_in.parent_exists, ext_in.dst_exists,
                               ext_in.tool_rc)
     IN /\ raised' = RawCreate(o)
        /\ calls' = IF o \in {"ok", "tool_fail"}
                    THEN Append(calls, Call("qemu-img", 1)) ELSE calls
        /\ host' = IF o = "ok" THEN [host EXCEPT !.img = @ \cup {1}] ELSE host
        /\ dev_status' =
             IF o = "ok"
             THEN [dev_status EXCEPT !.file = "img", !.size = dev_status.size_bytes,
                                     !.kind = "raw"]
             ELSE dev_status
  /\ tools_ok' = (ext_in.tool_rc = 0)
  /\ pc' = "codec_done"
  /\ UNCHANGED <<cfg, no_cleanup, rc, build_result, devs, di, ci, artifact,
                 deployed, stdout, buf_offset, try_exc, at_failure, cleanups,
                 torn, stage, teardown_ok, steps, ext_in, ext_out>>

NextCodec ==
  \/ TarCreateCall
  \/ ExtractCreated
  \/ RawCreateCall

SpecCodec == InitCodec /\ [][NextCodec]_vars

\* ------------------------------------------- convert_to_bytes on any string
\* the characters size strings are drawn from
SizeChars == {" ", "0", "1", "4", ".", "K", "G", "i", "Y", "B"}

SizeStrings == SeqsUpTo(SizeChars, MaxSizeLen)

InitSize ==
  /\ cfg = [os_release |-> "alpine", os_version |-> "3.19", fmt |-> <<"tar">>,
            has_block_devices |-> FALSE, block_devices |-> <<>>]
  /\ no_cleanup = FALSE
  /\ \E s \in SizeStrings : ext_in = [size_str |-> s]
  /\ pc = "convert"
  /\ InitCommon

\* a call utils.convert_to_bytes(size_str)
ConvertCall ==
  /\ pc = "convert"
  /\ ext_out' = ConvertToBytes(ext_in.size_str)
  /\ raised' = ext_out'.exc
  /\ pc' = "converted"
  /\ UNCHANGED <<cfg, no_cleanup, rc, build_result, devs, dev_status, di, ci,
                 host, artifact, deployed, calls, stdout, buf_offset, tools_ok,
                 try_exc, at_failure, cleanups, torn, stage, teardown_ok, steps, ext_in>>

NextSize == ConvertCall

SpecSize == InitSize /\ [][NextSize]_vars

\* ------------------------------------------------- attach called directly
\* the image paths attach is called with
Images == {1, 2}

\* the loop device losetup -f picks: the first one that is unused
FirstFree(loopdevices) ==
  CHOOSE k \in 0..Len(loopdevices) :
    /\ \A i \in 1..Len(loopdevices) : loopdevices[i].name # k
    /\ \A j \in 0..(k - 1) : \E i \in 1..Len(loopdevices) : loopdevices[i].name = j

\* losetup -f --show <image> (raw.py 48-55) on the loop-device table
\* loopdevices, the table losetup --json prints (raw.py 12): the first
\* unused loop device is bound to the image, whatever else is bound to it
LosetupFind(loopdevices, image_file) ==
  Append(loopdevices, [name |-> FirstFree(loopdevices), back_file |-> image_file])

\* the images of Images that exist are given; no loop device is in use
InitAttach ==
  /\ cfg = [os_release |-> "alpine", os_version |-> "3.19", fmt |-> <<"tar">>,
            has_block_devices |-> FALSE, block_devices |-> <<>>]
  /\ no_cleanup = FALSE
  /\ \E imgs \in SUBSET Images : host = [EmptyHost EXCEPT !.img = imgs]
  /\ ext_in = [image_file |-> 0]
  /\ ext_out = [exc |-> NoExc, loopdevices |-> <<>>, n |-> 0]
  /\ pc = "attach_call"
  /\ raised = NoExc
  /\ rc = 255
  /\ build_result = [rootfs |-> "built", block_devices |-> <<>>, artifacts |-> <<>>]
  /\ devs = <<>>
  /\ dev_status = NoStatus
  /\ di = 0
  /\ ci = 0
  /\ artifact = "absent"
  /\ deployed = {}
  /\ calls = <<>>
  /\ stdout = <<>>
  /\ buf_offset = 0
  /\ tools_ok = TRUE
  /\ try_exc = NoExc
  /\ at_failure = NoFailure
  /\ cleanups = 0
  /\ torn = <<>>
  /\ stage = "none"
  /\ teardown_ok = TRUE
  /\ steps = <<>>

\* a call blkdev.raw.attach(image_file); ext_out.n counts the calls
AttachCall ==
  /\ pc = "attach_call"
  /\ ext_out.n < MaxAttach
  /\ \E image_file \in Images, o \in {"ok", "tool_fail", "node_missing"} :
       LET e == RawAttach(image_file \in host.img, o)
           invoked == image_file \in host.img
           bound == invoked /\ o \in {"ok", "node_missing"}
           table == IF bound THEN LosetupFind(ext_out.loopdevices, image_file)
                    ELSE ext_out.loopdevices
       IN /\ ext_in' = [image_file |-> image_file]
          /\ ext_out' = [exc |-> e, loopdevices |-> table, n |-> ext_out.n + 1]
          /\ raised' = e
          /\ calls' = IF invoked THEN Append(calls, Call("losetup -f", image_file))
                      ELSE calls
          /\ host' = IF bound THEN [host EXCEPT !.loop = @ \cup {image_file}] ELSE host
          /\ tools_ok' = (tools_ok /\ o = "ok")
          /\ dev_status' =
               IF e = NoExc
               THEN [dev_status EXCEPT !.device_path = "loop",
                                       !.device_info = "loop_dev"]
               ELSE dev_status
  /\ UNCHANGED <<cfg, no_cleanup, pc, rc, build_result, devs, di, ci, artifact,
                 deployed, stdout, buf_offset, try_exc, at_failure, cleanups,
                 torn, stage, teardown_ok, steps>>

NextAttach == AttachCall

SpecAttach == InitAttach /\ [][NextAttach]_vars

\* ------------------------------------------- the entry shell on any outcome
\* the exception classes main and the components it calls can raise, and the
\* two the entry shell names without main raising them
ExcClasses ==
  {"BuildError", "CLIError", "RuntimeError", "NotImplementedError",
   "ValueError", "TypeError", "KeyError", "IndexError", "OSError",
   "FileNotFoundError", "AssertionError", "KeyboardInterrupt", "SystemExit"}

ExcMsgs ==
  {"Must run as root", "Missing or Empty Environment Variable",
   "Artifact already exists", "Hash Mismatch", "none"}

\* what `_rc = main()` (build.py 351) can end with: a return or an exception
MainOutcomes == {NoExc} \cup {Exc(c, m) : c \in ExcClasses, m \in ExcMsgs}

\* main is about to leave: it has reached its write loop (build.py 296) after
\* a build without block devices, or an exception is propagating out of it
InitDispatch ==
  /\ cfg = [os_release |-> "alpine", os_version |-> "3.19", fmt |-> <<"tar">>,
            has_block_devices |-> FALSE, block_devices |-> <<>>]
  /\ no_cleanup = FALSE
  /\ raised \in MainOutcomes
  /\ pc = IF raised = NoExc THEN "emit" ELSE "exit"
  /\ rc = 255
  /\ build_result =
       IF raised = NoExc
       THEN [rootfs |-> "built", block_devices |-> <<>>,
             artifacts |-> <<TarCreate(FALSE, "None", 0, 0).status>>]
       ELSE [rootfs |-> "None", block_devices |-> <<>>, artifacts |-> <<>>]
  /\ artifact = IF raised = NoExc THEN "orig" ELSE "absent"
  /\ calls = IF raised = NoExc
             THEN <<Call("apk", 0), Call("tar -c", 0), Call("md5sum", 0)>>
             ELSE <<>>
  /\ stage = IF raised = NoExc THEN "package" ELSE "none"
  /\ devs = <<>>
  /\ dev_status = NoStatus
  /\ di = 0
  /\ ci = 0
  /\ host = EmptyHost
  /\ deployed = {}
  /\ stdout = <<>>
  /\ buf_offset = 0
  /\ tools_ok = TRUE
  /\ try_exc = NoExc
  /\ at_failure = NoFailure
  /\ cleanups = 0
  /\ torn = <<>>
  /\ teardown_ok = TRUE
  /\ steps = <<>>
  /\ ext_in = NoExtIn
  /\ ext_out = NoExtOut

NextDispatch ==
  \/ WriteResult
  \/ MainReturn
  \/ MainRaises

SpecDispatch == InitDispatch /\ [][NextDispatch]_vars


\* ================================================================== claims
ProvisionStages == {"create", "attach", "format", "mount"}

\* main has terminated after a provisioning stage raised
ProvisionFailed == try_exc # NoExc /\ stage \in ProvisionStages

\* C1: if a provisioning stage of any device fails while cleanup is not
\* suppressed and the teardown tools succeed, then when main terminates no
\* mount point mounted by the run is still mounted and no loop device
\* attached by the run is still attached.
C1_RollbackTotal ==
  (pc = "done" /\ ProvisionFailed /\ ~no_cleanup /\ teardown_ok)
    => (host.mnt = {} /\ host.loop = {})

\* C2: when provisioning of a device fails after at least one of its stages
\* succeeded, build_result.block_devices holds, at the moment rollback runs,
\* an entry for that device recording the stages that succeeded, after the
\* entries of the devices provisioned before it.
C2_PartialEntryRecorded ==
  (pc \in {"finally", "cleanup"} /\ ProvisionFailed /\ at_failure.stages >= 1)
    => /\ Len(build_result.block_devices) = at_failure.di
       /\ build_result.block_devices[at_failure.di] = at_failure.status
       /\ SubSeq(build_result.block_devices, 1, at_failure.di - 1) = devs

\* C3: cleanup_blkdevs runs the teardown of every device of
\* build_result.block_devices, whatever happened in the teardown of the
\* devices before it.
C3_TeardownReachesEveryDevice ==
  (pc = "done" /\ cleanups >= 1)
    => torn = [i \in 1..Len(build_result.block_devices) |->
                 build_result.block_devices[i].img_path]

\* C4: when a provisioning or deploy stage fails and rollback then runs, the
\* failure that leaves main is the original stage failure, for every outcome
\* of the teardown steps.
C4_OriginalFailurePropagates ==
  (pc = "done" /\ try_exc # NoExc) => raised = try_exc

\* a valid configuration with one raw ext4 block device
OneDeviceConfig ==
  /\ cfg.os_release = "alpine"
  /\ cfg.os_version = "3.19"
  /\ cfg.fmt = <<"tar", "xz">>
  /\ cfg.has_block_devices
  /\ cfg.block_devices = <<GoodDev>>

\* a checksum string of the form algorithm:hexdigest
WellFormedHash(h) ==
  /\ Len(SplitHash(h)) = 2
  /\ SplitHash(h)[1] # <<>>
  /\ SplitHash(h)[2] # <<>>

\* C5: for a valid configuration with one raw ext4 block device and every
\* external tool succeeding, a run of main ends with exit code 0 after
\* emitting a BuildResult with one BlockDeviceStatus whose mount_info is
\* populated and one ArtifactStatus with a well-formed hash, and leaves no
\* device mounted or attached.
C5_EndToEnd ==
  (pc = "done" /\ OneDeviceConfig /\ tools_ok /\ ~no_cleanup)
    => /\ rc = 0
       /\ stdout # <<>>
       /\ Len(build_result.block_devices) = 1
       /\ build_result.block_devices[1].mount_info # "EMPTY"
       /\ Len(build_result.artifacts) = 1
       /\ WellFormedHash(build_result.artifacts[1].hash)
       /\ host.mnt = {}
       /\ host.loop = {}


\* the two parts of the expected hash of the direct call of extract
ExtParts == SplitHash(ext_in.hash)

\* the expected hash names a digest other than the one its algorithm gives
\* for the artifact
ExtDigestDiffers ==
  /\ Len(ExtParts) = 2
  /\ ExtParts[2] # Digest(Lower(ExtParts[1]), ext_in.content)

ExtInvoked(tool) == \E i \in 1..Len(ext_out.tools) : ext_out.tools[i] = tool

\* C6: extract invokes the extraction tool only after the recomputed
\* checksum of the source equals the digest of expectedHash; for every
\* expectedHash whose digest differs from the artifact's, extract fails, the
\* extraction tool is not invoked and nothing is written into the
\* destination, and the failure is the mismatch error once the checksum was
\* computed.
C6_VerifyThenExtract ==
  pc = "extracted" =>
    /\ ExtInvoked("tar -x") =>
         /\ Len(ExtParts) = 2
         /\ ext_out.tools[1] = "sum"
         /\ ext_in.sum_rc = 0
         /\ Digest(Lower(ExtParts[1]), ext_in.content) = ExtParts[2]
    /\ ExtDigestDiffers =>
         /\ ext_out.exc # NoExc
         /\ ~ExtInvoked("tar -x")
         /\ ~ext_out.extracted
         /\ deployed = {}
    /\ (/\ ExtDigestDiffers
        /\ ext_in.src_exists
        /\ ext_in.dst_kind = "dir"
        /\ Lower(ExtParts[1]) \in SumTools
        /\ ext_in.sum_rc = 0)
         => ext_out.exc = Exc("ValueError", "Hash Mismatch")

\* extract was given a corrupted expected hash for an artifact it could
\* otherwise have unpacked, and refused
C6_Witness ==
  /\ pc = "extracted"
  /\ ext_in.hash = <<"md5", ":", "bb">>
  /\ ext_in.content = "orig"
  /\ ext_in.compress_algo = "xz"
  /\ ext_in.tar_rc = 0
  /\ ext_out.exc = Exc("ValueError", "Hash Mismatch")
  /\ ext_out.tools = <<"sum">>

\* deploy ran, with a deploy target configured, on an artifact that no longer
\* has the content the packaging stage hashed
ArtifactChanged ==
  /\ stage = "deploy"
  /\ cfg.block_devices # <<>>
  /\ artifact \in {"corrupt", "absent"}

\* cleanup_blkdevs was called and started on the provisioned devices
RollbackRan ==
  /\ cleanups = 1
  /\ build_result.block_devices # <<>> => torn # <<>>

\* C7 as stated: if the artifact's content at deploy time no longer hashes
\* to build_result.artifacts[0].hash, deploy fails, nothing is extracted into
\* the mount point and rollback of the provisioned devices still runs.
C7_TamperedArtifactRejected ==
  ArtifactChanged =>
    /\ try_exc # NoExc
    /\ deployed = {}
    /\ pc = "done" => RollbackRan

\* C7 amended: ... and rollback of the provisioned devices still runs unless
\* cleanup is suppressed with --no-cleanup.
C7_TamperedArtifactRejectedUnlessNoCleanup ==
  ArtifactChanged =>
    /\ try_exc # NoExc
    /\ deployed = {}
    /\ (pc = "done" /\ ~no_cleanup) => RollbackRan

\* deploy met a corrupted artifact, refused it, and the device was torn down
C7_Witness ==
  /\ pc = "done"
  /\ artifact = "corrupt"
  /\ try_exc = Exc("ValueError", "Hash Mismatch")
  /\ ~no_cleanup
  /\ torn = <<1>>
  /\ deployed = {}

\* a valid configuration with two raw ext4 block devices
TwoDeviceConfig ==
  /\ cfg.os_release = "alpine"
  /\ cfg.os_version = "3.19"
  /\ cfg.fmt \in {<<"tar">>, <<"tar", "xz">>}
  /\ cfg.has_block_devices
  /\ cfg.block_devices = <<GoodDev, GoodDev>>

C9_DeployNeedsExactlyOneDevice ==
  (stage = "deploy" /\ Len(cfg.block_devices) # 1)
    => (try_exc.cls = "NotImplementedError" /\ deployed = {})

\* C10: every failure raised by a lower-level component during packaging,
\* provisioning or deployment leaves main as a BuildError, so that the
\* process exits with code 1 and never with code 3.
C10_StageFailuresAreBuildErrors ==
  (/\ pc = "done"
   /\ raised # NoExc
   /\ stage \in ({"package", "deploy"} \cup ProvisionStages)
   /\ stage = "package" \/ raised = try_exc)
    => (raised.cls = "BuildError" /\ rc = 1)

DevInvalid(dev) ==
  dev.kind # "raw" \/ dev.fs_type # "ext4" \/ dev.label_len > 16

\* the configuration has an unsupported enumerated value or an over-long label
ConfigInvalid ==
  \/ cfg.os_release # "alpine"
  \/ cfg.fmt \notin ({<<"tar">>} \cup {<<"tar", a>> : a \in SupportedAlgos})
  \/ \E i \in 1..Len(cfg.block_devices) : DevInvalid(cfg.block_devices[i])

\* C12: a configuration with an unsupported enumerated value or an over-long
\* volume label makes the run abort before any resource is touched: when the
\* error is raised no rootfs tree has been built, no artifact written, no
\* image file created and no loop device attached.
C12_InvalidConfigAbortsEarly ==
  (/\ ConfigInvalid
   /\ tools_ok
   /\ raised # NoExc
   /\ pc \in {"exit", "finally"})
    => /\ build_result.rootfs = "None"
       /\ artifact = "absent"
       /\ host.img = {}
       /\ host.loop = {}


\* C13: nothing is written to stdout in a run of main that does not return
\* 0: the result document is written only after every stage, teardown
\* included, has completed without raising.
C13_NoOutputUnlessSuccess ==
  /\ (pc = "done" /\ rc # 0) => stdout = <<>>
  /\ stdout # <<>> =>
       /\ try_exc = NoExc
       /\ build_result.rootfs = "built"
       /\ Len(build_result.artifacts) = 1
       /\ (cfg.has_block_devices /\ ~no_cleanup) => cleanups = 1


\* the external tools of the four provisioning stages
BlkTools == {"qemu-img", "losetup -f", "mkfs.ext4", "mount"}

\* a call of tool t precedes position i of the call history
CalledBefore(t, i) == \E j \in 1..(i - 1) : calls[j].tool = t

\* C14: packaging of the rootfs starts only after the rootfs build has
\* completed successfully, and no block-device operation (create, attach,
\* format, mount) is invoked before packaging has completed successfully.
C14_PackagingBetweenBuildAndProvisioning ==
  /\ stage = "package" => build_result.rootfs = "built"
  /\ stage \in ProvisionStages =>
       /\ build_result.rootfs = "built"
       /\ Len(build_result.artifacts) = 1
       /\ artifact = "orig"
  /\ \A i \in 1..Len(calls) :
       /\ calls[i].tool = "tar -c" => CalledBefore("apk", i)
       /\ calls[i].tool \in BlkTools =>
            /\ CalledBefore("tar -c", i)
            /\ CalledBefore("md5sum", i)

\* a device was mounted, after the rootfs was built and packaged
C14_Witness ==
  /\ stage = "mount"
  /\ Len(devs) = 1
  /\ calls[1].tool = "apk"
  /\ calls[2].tool = "tar -c"
  /\ calls[Len(calls)].tool = "mount"


\* this step invokes provisioning stage s (on the device of index di)
StageInvoked(s) == pc = s /\ stage' = s

\* the devices before index i have been provisioned, in configuration order
MountedBefore(i) ==
  /\ Len(devs) = i - 1
  /\ \A j \in 1..(i - 1) : devs[j].img_path = j /\ j \in host.mnt

\* C15: block devices are provisioned one after another in configuration
\* order, each through create, attach, format, mount in that order with no
\* stage skipped or repeated: no stage of device i+1 is invoked before the
\* mount of device i has succeeded, and a stage is invoked only if the
\* previous stage of the same device succeeded.
C15_StagesInOrder ==
  [][/\ (\E s \in ProvisionStages : StageInvoked(s)) =>
          /\ raised = NoExc
          /\ tools_ok
          /\ di \in 1..Len(cfg.block_devices)
          /\ MountedBefore(di)
     /\ StageInvoked("create") =>
          /\ stage = IF di = 1 THEN "package" ELSE "mount"
     /\ StageInvoked("attach") =>
          /\ stage = "create"
          /\ dev_status.img_path = di
          /\ dev_status.file = "img"
          /\ di \in host.img
     /\ StageInvoked("format") =>
          /\ stage = "attach"
          /\ dev_status.img_path = di
          /\ dev_status.device_path = "loop"
          /\ di \in host.loop
     /\ StageInvoked("mount") =>
          /\ stage = "format"
          /\ dev_status.img_path = di
          /\ dev_status.fs_info = "ext4"
          /\ di \in host.fs
          /\ di \notin host.mnt
    ]_vars

\* two devices went through their four stages, the first before the second
C15_Witness ==
  /\ stage = "mount"
  /\ Len(devs) = 2
  /\ host.mnt = {1, 2}
  /\ Len(calls) = 11
  /\ [i \in 1..8 |-> calls[i + 3]] =
       <<Call("qemu-img", 1), Call("losetup -f", 1), Call("mkfs.ext4", 1),
         Call("mount", 1), Call("qemu-img", 2), Call("losetup -f", 2),
         Call("mkfs.ext4", 2), Call("mount", 2)>>


\* Populated fields of a BlockDeviceStatus.  A key that is missing, None or
\* an empty dict is not populated; a label is modelled by its encoded length
\* and a path by the index of its device, both naturals.
AttachFields(st) == st.device_path # "ABSENT" \/ st.device_info # "EMPTY"

FsFields(st) ==
  st.fs_label \in Nat \/ st.fs_uuid # "None" \/ st.fs_info # "EMPTY"

MountFields(st) == st.mount_point \in Nat \/ st.mount_info # "EMPTY"

\* the number of stages of the current device that have succeeded, while it
\* is being provisioned or when one of its stages has just failed
StagesDone ==
  IF pc = "attach" THEN 1
  ELSE IF pc = "format" THEN 2
  ELSE IF pc = "mount" THEN 3
  ELSE at_failure.stages

\* C16: at every point of a device's provisioning its BlockDeviceStatus has
\* the attach fields populated only if attach succeeded, the filesystem
\* fields only if format succeeded and the mount fields only if mount
\* succeeded, so that after a failure at stage s exactly the fields of the
\* stages before s are populated.
C16_FieldsFollowStages ==
  (pc \in {"attach", "format", "mount"} \/ (pc = "finally" /\ ProvisionFailed))
    => /\ AttachFields(dev_status) <=> StagesDone >= 2
       /\ FsFields(dev_status) <=> StagesDone >= 3
       /\ MountFields(dev_status) <=> StagesDone >= 4


\* C17: safe_cleanup_blkdev completes without raising for a status in any
\* partial-provisioning state (only the create fields populated, attached
\* but not formatted, formatted but not mounted, fully mounted), the device
\* being of a supported kind and the teardown queries and tools succeeding.
C17_CleanupToleratesPartialStatus ==
  (/\ pc \in {"safe_cleanup_again", "cleanup_raised"}
   /\ Len(torn) = 1
   /\ dev_status.kind = "raw"
   /\ teardown_ok)
    => raised = NoExc


\* C18: rollback releases devices in the reverse of the order in which they
\* were acquired: with devices d0 and d1 provisioned in that order, the
\* teardown of d1 runs before the teardown of d0 (every tool succeeding).
C18_TeardownInReverseOrder ==
  LET acquired == build_result.block_devices
  IN (Len(acquired) >= 2 /\ tools_ok) =>
       \A i \in 1..Len(torn) :
         torn[i] = acquired[Len(acquired) - i + 1].img_path


\* main has entered its try statement (build.py 290)
TryEntered == cfg.has_block_devices /\ di >= 1

\* main has left the finally clause of its try statement, or is executing
\* cleanup_blkdevs called from it
TryLeft == TryEntered /\ pc \in {"cleanup", "emit", "exit", "done"}

\* C19: with --no-cleanup no unmount and no detach is invoked on any path;
\* without it cleanup_blkdevs is invoked exactly once after the
\* provisioning/deploy block, whether that block succeeded or failed.
C19_NoCleanupOption ==
  /\ no_cleanup =>
       /\ cleanups = 0
       /\ torn = <<>>
       /\ \A i \in 1..Len(calls) : calls[i].tool \notin {"umount", "losetup -d"}
  /\ ~no_cleanup =>
       /\ TryLeft => cleanups = 1
       /\ ~TryLeft => cleanups = 0

\* a build with --no-cleanup succeeded and left its device mounted
C19_Witness ==
  /\ no_cleanup
  /\ pc = "done"
  /\ rc = 0
  /\ try_exc = NoExc
  /\ host.mnt = {1}
  /\ host.loop = {1}


\* C20: on the success path with cleanup enabled every provisioned device
\* has been unmounted and detached before the first byte of the result
\* document is written, so at result emission no device of the run is
\* mounted or attached (the teardown queries and tools succeeding).
C20_ReleasedBeforeResult ==
  (/\ TryEntered
   /\ ~no_cleanup
   /\ teardown_ok
   /\ pc = "emit" \/ stdout # <<>>)
    => /\ host.mnt = {}
       /\ host.loop = {}
       /\ torn = [i \in 1..Len(cfg.block_devices) |-> i]
       /\ \A i \in 1..Len(cfg.block_devices) :
            /\ \E j \in 1..Len(calls) : calls[j] = Call("umount", i)
            /\ \E j \in 1..Len(calls) : calls[j] = Call("losetup -d", i)

\* the device of a successful build was released and the first byte of the
\* result is about to be written
C20_Witness ==
  /\ pc = "emit"
  /\ stdout = <<>>
  /\ ~no_cleanup
  /\ Len(build_result.block_devices) = 1
  /\ deployed = {1}
  /\ torn = <<1>>
  /\ host = [img |-> {1}, loop |-> {}, fs |-> {1}, mnt |-> {}]


\* C21: neither artifact create nor block-device create invokes its external
\* tool when the target path already exists: each fails first, for every
\* other input value (an unsupported compression algorithm included), and
\* the existing file is left unchanged.
C21_CreateNeverOverwrites ==
  (pc = "codec_done" /\ ext_in.dst_exists) =>
    /\ raised # NoExc
    /\ calls = <<>>
    /\ ext_in.op = "tar.create" =>
         /\ raised = Exc("RuntimeError", "Artifact already exists")
         /\ artifact = "foreign"
         /\ build_result.artifacts = <<>>
    /\ ext_in.op = "raw.create" =>
         /\ raised = Exc("RuntimeError", "Block Device already exists")
         /\ host.img = {1}
         /\ dev_status.file = "ABSENT"

\* create was asked to write, with an unsupported compression algorithm, an
\* artifact that already exists, and refused because it exists
C21_Witness ==
  /\ pc = "codec_done"
  /\ ext_in.op = "tar.create"
  /\ ext_in.dst_exists
  /\ ext_in.compress_algo = "rar"
  /\ raised = Exc("RuntimeError", "Artifact already exists")
  /\ artifact = "foreign"


\* the supported rootfs format tags, as lists of their dot-separated parts
SupportedFmtTags ==
  {<<"tar">>, <<"tar", "gz">>, <<"tar", "xz">>, <<"tar", "bz2">>,
   <<"tar", "lzma">>, <<"tar", "lzip">>, <<"tar", "lzop">>, <<"tar", "zstd">>}

\* C22: for every supported rootfs format tag the format field of the
\* ArtifactStatus produced by packaging equals that tag: "tar.<algo>" for a
\* compressed archive and bare "tar" when no compression is used.
C22_FormatFieldIsTheTag ==
  (cfg.fmt \in SupportedFmtTags /\ build_result.artifacts # <<>>)
    => build_result.artifacts[1].fmt = cfg.fmt


\* the compression tags of the if/elif chain; "None" is no compression
CompressionTags ==
  {"None", "gz", "xz", "bz2", "lzma", "lzip", "lzop", "zstd"}

\* a create of a fresh target followed by an extract, every tool returning 0
RoundTripRan ==
  /\ pc = "codec_done"
  /\ ext_in.op = "tar.create"
  /\ ~ext_in.dst_exists
  /\ tools_ok

\* C23: for every supported compression tag, none included, create followed
\* by extract of the unmodified artifact with the hash create returned and the
\* same tag passes the checksum comparison and runs the extraction, which
\* yields the source tree.
C23_CreateExtractRoundTrip ==
  (RoundTripRan /\ ext_in.compress_algo \in CompressionTags) =>
    /\ raised = NoExc
    /\ artifact = "orig"
    /\ build_result.artifacts[1].hash = <<"md5", ":">> \o Digest(<<"md5">>, "orig")
    /\ ext_out.exc = NoExc
    /\ ext_out.tools = <<"sum", "tar -x">>
    /\ ext_out.extracted
    /\ 1 \in deployed

C23_Witness ==
  /\ RoundTripRan
  /\ ext_in.compress_algo = "zstd"
  /\ ext_out.extracted
  /\ calls = <<Call("tar -c", 0), Call("md5sum", 0), Call("sum", 1), Call("tar -x", 1)>>


\* expectedHash has the form algorithm:digest with both parts non-empty
HashWellFormed(hash) ==
  /\ Len(SplitHash(hash)) = 2
  /\ SplitHash(hash)[1] # <<>>
  /\ SplitHash(hash)[2] # <<>>

\* C24: for every expectedHash that is not of the form algorithm:hexdigest
\* (no ':' separator, an empty algorithm, or an empty digest) extract, given
\* an existing source and a destination directory, fails with the invalid
\* hash format error before any checksum or extraction tool is invoked.
C24_MalformedHashRejectedEarly ==
  (/\ pc = "extracted"
   /\ ext_in.src_exists
   /\ ext_in.dst_kind = "dir"
   /\ ~HashWellFormed(ext_in.hash))
    => /\ ext_out.exc = Exc("ValueError", "Invalid Hash Format")
       /\ ext_out.tools = <<>>
       /\ calls = <<>>


\* the format stage ran last, on an ext4 device whose label has n encoded bytes
FormatRanWithLabel(n) ==
  /\ stage = "format"
  /\ cfg.block_devices[di].fs_type = "ext4"
  /\ cfg.block_devices[di].label_len = n

MkfsInvoked == \E i \in 1..Len(calls) : calls[i] = Call("mkfs.ext4", di)

\* C25: format rejects a volume label of more than 16 encoded bytes: it
\* raises before mkfs.ext4 is invoked, so the device holds no new filesystem;
\* a label of exactly 16 bytes is accepted and the device is formatted.
C25_LabelLimit ==
  /\ FormatRanWithLabel(LabelMax + 1) =>
       /\ raised # NoExc
       /\ raised.cls \in {"ValueError", "BuildError"}
       /\ raised.cls = "BuildError" => raised.msg = "Failed to format block device"
       /\ ~MkfsInvoked
       /\ di \notin host.fs
       /\ dev_status.fs_info = "EMPTY"
  /\ (FormatRanWithLabel(LabelMax) /\ tools_ok) =>
       /\ raised = NoExc
       /\ MkfsInvoked
       /\ di \in host.fs
       /\ dev_status.fs_info = "ext4"

C25_Witness ==
  /\ FormatRanWithLabel(LabelMax + 1)
  /\ raised = Exc("ValueError", "Volume Label must be 16 bytes or less")
  /\ di \in host.loop
  /\ ~MkfsInvoked


\* what HUMAN_BYTESIZE_RE finds in the string convert_to_bytes was called with
SizeGroups == HumanBytesizeMatch(ext_in.size_str)

\* convert_to_bytes was called with a valid size string of a recognized unit
ValidSizeConverted ==
  /\ pc = "converted"
  /\ SizeGroups.matched
  /\ UnitKnown(SizeGroups.unit)

\* C26: for every valid size string with number n and recognized unit u,
\* convert_to_bytes returns n times multiplier(u) truncated toward zero, the
\* multiplier being 1024^k for KiB..YiB, 1000^k for KB..YB and 1 for B or no
\* unit.
C26_ExactProductTruncated ==
  ValidSizeConverted =>
    /\ ext_out.exc = NoExc
    /\ ext_out.value = ExactBytes(SizeGroups.whole, SizeGroups.frac, SizeGroups.unit)


\* every character lo..hi of s is in the class
AllIn(s, lo, hi, class) == \A i \in lo..hi : s[i] \in class

\* s reads: whitespace, digits with an optional '.' and more digits,
\* whitespace (only when inner is set), letters, whitespace; and the letters
\* are a recognized unit exactly when known is set
MatchesPattern(s, inner, known) ==
  \E a \in 0..Len(s) :
    /\ AllIn(s, 1, a, WhiteSpace)
    /\ \E b \in (a + 1)..Len(s) :
         /\ AllIn(s, a + 1, b, Digits)
         /\ \E c \in b..Len(s) :
              /\ c = b \/ (c > b + 1 /\ s[b + 1] = "." /\ AllIn(s, b + 2, c, Digits))
              /\ \E d \in c..Len(s) :
                   /\ inner \/ d = c
                   /\ AllIn(s, c + 1, d, WhiteSpace)
                   /\ \E e \in d..Len(s) :
                        /\ AllIn(s, d + 1, e, Letters)
                        /\ AllIn(s, e + 1, Len(s), WhiteSpace)
                        /\ UnitKnown(SubSeq(s, d + 1, e)) = known

\* convert_to_bytes raises its two errors exactly on the strings outside the
\* pattern and on those inside it with an unrecognized unit
SizeErrorsFollowPattern(inner) ==
  pc = "converted" =>
    LET s == ext_in.size_str
        invalid == Exc("ValueError", "Invalid size format")
        unknown == Exc("ValueError", "Unknown unit")
    IN /\ ext_out.exc = invalid
            <=> ~(MatchesPattern(s, inner, TRUE) \/ MatchesPattern(s, inner, FALSE))
       /\ ext_out.exc = unknown <=> MatchesPattern(s, inner, FALSE)
       /\ ext_out.exc \in {invalid, unknown, NoExc}
       /\ ext_out.exc # NoExc => ext_out.value = <<>> /\ raised = ext_out.exc

\* C27 as stated: convert_to_bytes fails with the invalid size format error
\* exactly when the string is not <number>[unit] with whitespace allowed
\* around it, and with the unknown unit error exactly when it is but the
\* unit is not recognized; it returns no value in either case.
C27_SurroundingWhitespaceOnly == SizeErrorsFollowPattern(FALSE)

\* C27 amended: the same with whitespace allowed before the number, between
\* the number and the unit, and after the unit.
C27_ErrorsFollowPattern == SizeErrorsFollowPattern(TRUE)

C27_Witness ==
  /\ pc = "converted"
  /\ ext_in.size_str = <<"1", " ", "Y">>
  /\ ext_out.exc = Exc("ValueError", "Unknown unit")


TeardownTools == {"umount", "losetup -d"}

\* C28: teardown is idempotent: a second safe_cleanup_blkdev on the same
\* status, after a first one that unmounted and detached without a failure,
\* invokes neither umount nor losetup -d and leaves the host as it was.
C28_SecondCleanupDoesNothing ==
  [][(pc = "safe_cleanup_again" /\ teardown_ok) =>
       /\ host' = host
       /\ \A i \in (Len(calls) + 1)..Len(calls') : calls'[i].tool \notin TeardownTools
       /\ torn' = <<1, 1>>]_vars

\* the second call returned, after a first one that ran umount and losetup -d
C28_Witness ==
  /\ pc = "cleaned_twice"
  /\ teardown_ok
  /\ torn = <<1, 1>>
  /\ host.mnt = {} /\ host.loop = {}
  /\ calls = <<Call("umount", 1), Call("losetup --json", 1), Call("losetup -d", 1),
               Call("losetup --json", 1)>>


\* mutant of StdoutOf: mkfs.ext4 is run without a stdout argument
StdoutOfMkfsInherited(tool) ==
  IF tool \in {"md5sum", "sum", "losetup --json", "losetup -f"} THEN "pipe"
  ELSE IF tool = "mkfs.ext4" THEN "inherit"
  ELSE "stderr"

\* the stdout argument of the subprocess.run that starts the tool: captured
\* (subprocess.PIPE, tar.py 51 and 80, raw.py 9 and 54) or sys.stderr
\* (every other call)
StdoutOf(tool) ==
  IF tool \in {"md5sum", "sum", "losetup --json", "losetup -f"} THEN "pipe"
  ELSE "stderr"

\* the sink setup_logging gives the logger (build.py 328-330)
LogSink == "stderr"

\* C29: the standard output of every external tool is redirected to the
\* diagnostic stream or captured and the log goes to the diagnostic stream,
\* so the only bytes on stdout are bytes of the serialized BuildResult,
\* written by the write loop of main.
C29_StdoutCarriesOnlyTheResult ==
  /\ \A i \in 1..Len(calls) : StdoutOf(calls[i].tool) \in {"stderr", "pipe"}
  /\ LogSink = "stderr"
  /\ \A i \in 1..Len(stdout) : \E j \in 1..BufLen : stdout[i] = Buf[j]
  /\ stdout # <<>> => pc \in {"emit", "done", "exit"}

\* a run with a device went through every tool and wrote the result
C29_Witness ==
  /\ pc = "done"
  /\ stdout = Buf
  /\ \A t \in {"apk", "tar -c", "md5sum", "qemu-img", "losetup -f", "mkfs.ext4",
              "mount", "sum", "tar -x", "umount", "losetup --json", "losetup -d"} :
       \E i \in 1..Len(calls) : calls[i].tool = t


\* the tools of packaging, of block-device provisioning and of teardown
LaterStageTools ==
  {"tar -c", "md5sum", "qemu-img", "losetup -f", "mkfs.ext4", "mount",
   "umount", "losetup --json", "losetup -d"}

\* C30: if the rootfs build fails, main raises a BuildError and no
\* packaging, no block-device create, attach, format or mount and no
\* teardown call is invoked in that run.
C30_RootfsFailureIsBuildError ==
  (stage = "build_rootfs" /\ raised # NoExc) =>
    /\ raised.cls = "BuildError"
    /\ pc \in {"exit", "done"}
    /\ \A i \in 1..Len(calls) : calls[i].tool \notin LaterStageTools
    /\ build_result.artifacts = <<>>
    /\ host = EmptyHost
    /\ cleanups = 0 /\ torn = <<>>



\* the tools the call of safe_cleanup_blkdev taken by this step invoked
ToolsOfStep == {calls'[i].tool : i \in (Len(calls) + 1)..Len(calls')}

\* C31: during the teardown of a device unmount is invoked only if the live
\* mount table lists the device's mount point, and detach only if the live
\* loop-device table shows the image bound; otherwise the step is skipped
\* without error (the status naming its loop device, the kind being raw and
\* the two tables being readable).
C31_TeardownStepsGated ==
  [][(pc \in {"safe_cleanup", "safe_cleanup_again"}) =>
       LET mounted == dev_status.mount_point # 0 /\ dev_status.mount_point \in host.mnt
           bound == dev_status.img_path \in host.loop
       IN /\ "umount" \in ToolsOfStep => mounted
          /\ "losetup -d" \in ToolsOfStep => bound
          /\ (teardown_ok' /\ dev_status.kind = "raw"
                /\ dev_status.device_path # "ABSENT") =>
               /\ raised' = NoExc
               /\ ~mounted => "umount" \notin ToolsOfStep /\ host'.mnt = host.mnt
               /\ ~bound => "losetup -d" \notin ToolsOfStep /\ host'.loop = host.loop]_vars

\* the teardown of a formatted device that was never mounted returned: the
\* unmount step was skipped, the detach step ran
C31_Witness ==
  /\ pc = "safe_cleanup_again"
  /\ raised = NoExc
  /\ dev_status.mount_point = 1
  /\ dev_status.fs_info = "ext4"
  /\ dev_status.mount_info = "EMPTY"
  /\ calls = <<Call("losetup --json", 1), Call("losetup -d", 1)>>
  /\ host.loop = {}



\* the functions the call of safe_cleanup_blkdev taken by this step called
StepsOfStep == SubSeq(steps', Len(steps) + 1, Len(steps'))

\* the call of safe_cleanup_blkdev taken by this step called f, and g later
CalledThen(f, g) ==
  \E i, j \in 1..Len(StepsOfStep) :
    i < j /\ StepsOfStep[i].tool = f /\ StepsOfStep[j].tool = g

\* C32: within the teardown of one device a failed unmount is not escalated
\* and does not stop the teardown: the detach step of the same device is
\* still attempted when the image is reported bound.
C32_FailedUnmountGoesOn ==
  [][(/\ pc \in {"safe_cleanup", "safe_cleanup_again"}
      /\ \E i \in 1..Len(StepsOfStep) : StepsOfStep[i].tool = "unmount"
      /\ dev_status.mount_point \in host'.mnt) =>
       /\ raised' \notin {Unmount("mp_missing"), Unmount("fail")}
       /\ dev_status.kind = "raw" => CalledThen("unmount", "is_attached")
       /\ (/\ dev_status.kind = "raw"
           /\ dev_status.img_path \in host.loop
           /\ raised' # Exc("RuntimeError", "Failed to list loop devices")) =>
            /\ CalledThen("unmount", "cleanup")
            /\ raised' = NoExc]_vars

\* umount failed on a mounted device and losetup -d then detached its image
C32_Witness ==
  /\ pc = "safe_cleanup_again"
  /\ raised = NoExc
  /\ ~teardown_ok
  /\ calls = <<Call("umount", 1), Call("losetup --json", 1), Call("losetup -d", 1)>>
  /\ steps = <<Call("is_mounted", 1), Call("unmount", 1), Call("is_attached", 1),
               Call("cleanup", 1)>>
  /\ host.mnt = {1}
  /\ host.loop = {}



\* C33: within the teardown of one device the unmount step precedes the
\* detach step: the loop-device table is queried and the loop device
\* detached only after the mount table was queried for that device, and no
\* unmount of its mount point follows.
C33_UnmountBeforeDetach ==
  \A j \in 1..Len(steps) :
    steps[j].tool \in {"is_attached", "cleanup"} =>
      /\ \E i \in 1..(j - 1) : steps[i] = Call("is_mounted", steps[j].dev)
      /\ \A i \in (j + 1)..Len(steps) :
           steps[i].dev = steps[j].dev => steps[i].tool \notin {"is_mounted", "unmount"}
      /\ \A a, b \in 1..Len(calls) :
           (calls[a] = Call("losetup -d", steps[j].dev)
              /\ calls[b] = Call("umount", steps[j].dev)) => b < a

\* two provisioned devices were torn down, each unmounted and then detached
C33_Witness ==
  /\ pc = "done"
  /\ torn = <<1, 2>>
  /\ steps = <<Call("is_mounted", 1), Call("unmount", 1), Call("is_attached", 1),
               Call("cleanup", 1), Call("is_mounted", 2), Call("unmount", 2),
               Call("is_attached", 2), Call("cleanup", 2)>>
  /\ host.mnt = {} /\ host.loop = {}



\* the loop devices of the table whose backing file is the image
LoopDevsOf(image_file) ==
  {i \in 1..Len(ext_out.loopdevices) : ext_out.loopdevices[i].back_file = image_file}

\* C34: attach is idempotent with respect to the loop-device table: calling
\* attach on an image that is already bound to a loop device does not bind a
\* second loop device to the same image.
C34_AttachIdempotent ==
  \A image_file \in Images : Cardinality(LoopDevsOf(image_file)) <= 1



\* C35: if an interrupt is raised while the provisioning/deploy block of
\* main is executing and cleanup is not suppressed, cleanup_blkdevs still
\* runs before the process exits, and the process exits with code 4.
C35_InterruptStillCleansUp ==
  (IsInterrupt(try_exc) /\ ~no_cleanup) =>
    /\ pc \in {"exit", "done"} => cleanups = 1
    /\ pc = "done" => rc = 4



\* C36: the write loop of main emits the serialized BuildResult exactly
\* once: whatever partial writes stdout accepts, the bytes emitted are the
\* bytes of the buffer, none duplicated and none missing, while the loop
\* runs a prefix of it and when main has returned all of it.
C36_ResultWrittenOnce ==
  /\ (pc = "emit" /\ raised = NoExc) =>
       /\ Len(stdout) <= BufLen
       /\ stdout = SubSeq(Buf, 1, Len(stdout))
       /\ buf_offset = Len(stdout)
  /\ (pc = "done" /\ rc = 0) => stdout = Buf



\* the status describes a device whose four stages all succeeded
FullyProvisioned(st) ==
  /\ st.file = "img"
  /\ st.device_path = "loop" /\ st.device_info = "loop_dev"
  /\ st.fs_info = "ext4"
  /\ st.mount_info = "POPULATED"

\* C37: every entry ever present in BuildResult.block_devices describes a
\* device whose four stages all succeeded, and entries appear in
\* configuration order: the list is either empty or holds one fully
\* provisioned entry per configured device.
C37_OnlyFullEntries ==
  LET block_devices == build_result.block_devices
  IN /\ block_devices = <<>> \/ Len(block_devices) = Len(cfg.block_devices)
     /\ \A i \in 1..Len(block_devices) :
          /\ block_devices[i].img_path = i
          /\ block_devices[i].mount_point = i
          /\ FullyProvisioned(block_devices[i])
          /\ \A t \in BlkTools : \E j \in 1..Len(calls) : calls[j] = Call(t, i)

\* build_blkdevs returned the statuses of two configured devices
C37_Witness ==
  /\ pc = "deploy"
  /\ Len(cfg.block_devices) = 2
  /\ Len(build_result.block_devices) = 2
  /\ build_result.block_devices[2].img_path = 2
  /\ host.mnt = {1, 2}



\* C38: teardown only unmounts and detaches: no step of the finally clause,
\* of cleanup_blkdevs or of the exit path deletes or modifies an image file,
\* the packaged artifact, a filesystem or the files deployed, changes the
\* recorded result, or runs a tool other than umount and losetup.
C38_TeardownKeepsFiles ==
  [][(pc \in {"finally", "cleanup", "exit"}) =>
       /\ host'.img = host.img
       /\ host'.fs = host.fs
       /\ artifact' = artifact
       /\ deployed' = deployed
       /\ build_result' = build_result
       /\ host'.mnt \subseteq host.mnt
       /\ host'.loop \subseteq host.loop
       /\ \A i \in (Len(calls) + 1)..Len(calls') :
            calls'[i].tool \in TeardownTools \cup {"losetup --json"}]_vars

\* a failed deploy was rolled back: the device is unmounted and detached,
\* its image, its filesystem and the artifact are still there
C38_Witness ==
  /\ pc = "done"
  /\ rc = 1
  /\ IsBuildError(try_exc)
  /\ torn = <<1>>
  /\ host = [img |-> {1}, loop |-> {}, fs |-> {1}, mnt |-> {}]
  /\ artifact = "orig"
  /\ build_result.rootfs = "built"



\* the tools of the build and packaging stages
BuildAndPackageTools == {"apk", "tar -c", "md5sum"}

\* C39: when the configuration has no block_devices key, main performs
\* neither provisioning nor deployment nor cleanup, and proceeds from
\* packaging directly to emitting a result whose block_devices list is
\* empty.
C39_NoBlockDevicesKey ==
  ~cfg.has_block_devices =>
    /\ pc \in {"build_rootfs", "package", "emit", "exit", "done"}
    /\ di = 0 /\ devs = <<>>
    /\ build_result.block_devices = <<>>
    /\ host = EmptyHost
    /\ deployed = {}
    /\ cleanups = 0 /\ torn = <<>> /\ steps = <<>>
    /\ \A i \in 1..Len(calls) : calls[i].tool \in BuildAndPackageTools
    /\ (stage = "package" /\ raised = NoExc) => pc \in {"emit", "done"}
    /\ stdout # <<>> => Len(build_result.artifacts) = 1

\* a configuration without the key was built and packaged, and main
\* returned after writing the result
C39_Witness ==
  /\ ~cfg.has_block_devices
  /\ pc = "done"
  /\ rc = 0
  /\ stdout = Buf
  /\ build_result.block_devices = <<>>
  /\ Len(build_result.artifacts) = 1
  /\ calls # <<>>

====
